---- MODULE Spec2Model ----
\* Cross-Chain Resource Execution (src/cre-x402.ts): the executePayment
\* orchestrator, its balance scanner, route selection, bridge executor,
\* completion watcher and payment step, run against a Ledger Gateway whose
\* every call may succeed or fail.
EXTENDS Integers, Sequences, FiniteSets, TLC

VARIABLES
  config,   \* CrossChainResourceExecution.config (CREConfig)
  now,      \* Date.now(), milliseconds
  txs,      \* transactions submitted to the gateway, in submission order
  inv,      \* one record per executePayment invocation: its locals and position
  retry     \* the locals and position of a retryWithBackoff call (utils)

vars == <<config, now, txs, inv, retry>>

\* ------------------------------------------------------------------ bounds

\* Longest supportedChains list the constructor is given.
MaxChains == 2
\* Largest maxBridgeWaitTime (seconds) the constructor is given.
MaxWaitSeconds == 2
\* Largest maxRetries retryWithBackoff is given.
MaxRetries == 3

\* --------------------------------------------------------------- constants

DefaultDecimals == 18
DefaultMaxBridgeWaitTime == 180
DefaultPollInterval == 10000
MsPerSecond == 1000

ZeroAddress == "0x0000000000000000000000000000000000000000"

DefaultSupportedChains ==
  <<"ethereum", "base", "arbitrum", "optimism", "ethereum-sepolia", "base-sepolia">>

LAYERZERO_ENDPOINTS ==
  [ c \in {"ethereum", "ethereum-sepolia", "base", "base-sepolia",
           "arbitrum", "optimism", "polygon"} |->
      CASE c = "ethereum"         -> "0x66A71Dcef29A0fFBDBE3c6a460a3B5BC225Cd675"
        [] c = "ethereum-sepolia" -> "0xae92d5aD7583AD66E49A0c67BAd18F6ba52dDDc1"
        [] c = "base"             -> "0xb6319cC6c8c27A8F5dAF0dD3DF91EA35C4720dd7"
        [] c = "base-sepolia"     -> "0x6EDCE65403992e310A62460808c4b910D972f10f"
        [] c = "arbitrum"         -> "0x3c2269811836af69497E5F486A85D7316753cf62"
        [] c = "optimism"         -> "0x3c2269811836af69497E5F486A85D7316753cf62"
        [] c = "polygon"          -> "0x3c2269811836af69497E5F486A85D7316753cf62" ]

\* The properties an object literal inherits from Object.prototype: a read
\* of one of these keys answers the inherited member, a function (for
\* "__proto__" the prototype object itself), whatever the literal defines.
ObjectPrototype ==
  << "constructor", "hasOwnProperty", "isPrototypeOf", "propertyIsEnumerable",
     "toLocaleString", "toString", "valueOf", "__proto__",
     "__defineGetter__", "__defineSetter__", "__lookupGetter__",
     "__lookupSetter__" >>

inherited(key) == \E n \in DOMAIN ObjectPrototype : ObjectPrototype[n] = key

\* The inherited member where the code holds an address (a string).
inheritedMember(key) == "Object.prototype." \o key

\* The inherited member where the code holds a number: no number stands for
\* a function, so the members are numbered from -2 downwards (-1 is the
\* chain id of a transaction that has none).
inheritedMemberAsNumber(key) ==
  -1 - (CHOOSE n \in DOMAIN ObjectPrototype : ObjectPrototype[n] = key)

\* `${member}`: what the inherited member converts to as a string.
memberString(key) ==
  IF key = "__proto__" THEN "[object Object]"
  ELSE "function " \o (IF key = "constructor" THEN "Object" ELSE key)
         \o "() { [native code] }"

\* LAYERZERO_ENDPOINTS[fromChain]: the table's entry, or the member the
\* table inherits under that key; "" stands for JavaScript's undefined.
lzEndpointOf(chain) ==
  IF chain \in DOMAIN LAYERZERO_ENDPOINTS THEN LAYERZERO_ENDPOINTS[chain]
  ELSE IF inherited(chain) THEN inheritedMember(chain)
  ELSE ""

chainIds ==
  [ c \in {"ethereum", "ethereum-sepolia", "base", "base-sepolia",
           "arbitrum", "optimism", "polygon"} |->
      CASE c = "ethereum"         -> 101
        [] c = "ethereum-sepolia" -> 10161
        [] c = "base"             -> 184
        [] c = "base-sepolia"     -> 10160
        [] c = "arbitrum"         -> 110
        [] c = "optimism"         -> 111
        [] c = "polygon"          -> 109 ]

\* chainIds[chain] || 0: the table's entry, or the member the table inherits
\* under that key (truthy, so it is what is returned), or 0.
getLayerZeroChainId(chain) ==
  IF chain \in DOMAIN chainIds THEN chainIds[chain]
  ELSE IF inherited(chain) THEN inheritedMemberAsNumber(chain)
  ELSE 0

\* viem encodeFunctionData, approve(spender, amount): the spender is encoded
\* as an address, and a value that is no address (an inherited member) makes
\* the encoding throw InvalidAddressError. The message is its first line;
\* viem's explanation and version follow it.
approveEncodingThrows(chain) ==
  chain \notin DOMAIN LAYERZERO_ENDPOINTS /\ inherited(chain)

InvalidAddressError(chain) ==
  [ isError |-> TRUE,
    message |-> "Address \"" \o memberString(chain) \o "\" is invalid." ]

\* viem encodeFunctionData, sendFrom(..., destChainId, ...): the identifier
\* is encoded as uint16 through BigInt(value), which throws a SyntaxError
\* for a value that is no number (an inherited member).
sendFromEncodingThrows(chain) ==
  chain \notin DOMAIN chainIds /\ inherited(chain)

CannotConvertToBigInt(chain) ==
  [ isError |-> TRUE,
    message |-> "Cannot convert " \o memberString(chain) \o " to a BigInt" ]

\* ------------------------------------------------------- the environment

\* Networks of the requests and configurations explored: two with a bridge
\* endpoint and one ("solana") that the endpoint tables do not know.
Networks == {"base", "ethereum", "solana"}

Wallet == "0xWallet"
Payee  == "0xPayee"
Token  == "0xToken"

\* What the token contract's decimals() answers on each network.
TokenDecimals(chain) == IF chain = "base" THEN 17 ELSE 18

\* Raw balances (smallest units) a balance read may answer.
Balances == {0, 2, 20, 30}

\* Time a balance query of the watcher may take (ms).
Latencies == {0, 500}

PollIntervals == {1000, 2000}

\* A decimal string is mant * 10^(-exp): "0.00000000000000002" is
\* [mant |-> 2, exp |-> 17]; valid = FALSE is a string that is no decimal
\* number ("abc").
AmountStrings ==
  { [valid |-> TRUE,  mant |-> 2,  exp |-> 17],
    [valid |-> TRUE,  mant |-> 15, exp |-> 18],
    [valid |-> FALSE, mant |-> 0,  exp |-> 0] }

\* Values a failing gateway call rejects with. The gateway is the
\* BlockchainOperations the constructor builds: its reads end in
\* throw new Error("..."), and its writes pass on what viem and the CDP
\* client reject with, an Error with a string message; a value that is no
\* Error (a string) exercises the fallback of the catch blocks.
Thrown(op) ==
  { [isError |-> TRUE,  message |-> op],
    [isError |-> FALSE, message |-> ""] }

\* ------------------------------------------------------------ pure helpers

RECURSIVE Pow10(_)
Pow10(k) == IF k = 0 THEN 1 ELSE 10 * Pow10(k - 1)

\* viem parseUnits: throws on a string that is no decimal number
parseUnitsThrows(value) == ~value.valid

\* A conversion at the default 18 decimals, whatever the token's decimals.
parseUnitsDefaultDecimals(value, decimals) ==
  value.mant * Pow10(DefaultDecimals - value.exp)

\* viem parseUnits(value, decimals): the sign is set aside, the digits are
\* scaled by 10^decimals, a fraction longer than decimals is rounded half up,
\* and the sign is put back.
parseUnits(value, decimals) ==
  LET negative  == value.mant < 0
      magnitude == IF negative THEN -value.mant ELSE value.mant
      scaled    == IF decimals >= value.exp
                   THEN magnitude * Pow10(decimals - value.exp)
                   ELSE ((magnitude \div Pow10(value.exp - decimals - 1)) + 5) \div 10
  IN IF negative THEN -scaled ELSE scaled

\* error instanceof Error ? error.message : fallback
errorMessage(error, fallback) ==
  IF error.isError THEN error.message ELSE fallback

\* A comparator that sorts ascending.
compareFnAscending(a, b) == a.balance - b.balance

\* (a, b) => Number(b.balance - a.balance)
compareFn(a, b) == b.balance - a.balance

\* An unstable sort: x goes before the elements it compares equal to.
RECURSIVE InsertSortedBeforeEquals(_, _)
InsertSortedBeforeEquals(x, s) ==
  IF s = <<>> THEN <<x>>
  ELSE IF compareFn(Head(s), x) < 0
       THEN <<Head(s)>> \o InsertSortedBeforeEquals(x, Tail(s))
       ELSE <<x>> \o s

\* Array.prototype.sort is stable: x goes after every element that does not
\* sort after it.
RECURSIVE InsertSorted(_, _)
InsertSorted(x, s) ==
  IF s = <<>> THEN <<x>>
  ELSE IF compareFn(Head(s), x) <= 0
       THEN <<Head(s)>> \o InsertSorted(x, Tail(s))
       ELSE <<x>> \o s

RECURSIVE sort(_)
sort(s) ==
  IF s = <<>> THEN <<>>
  ELSE InsertSorted(s[Len(s)], sort(SubSeq(s, 1, Len(s) - 1)))

\* A filter that does not exclude the destination network.
RECURSIVE viableChainsAnyNetwork(_, _, _)
viableChainsAnyNetwork(allBalances, network, requiredAmount) ==
  IF allBalances = <<>> THEN <<>>
  ELSE LET b == Head(allBalances)
           rest == viableChainsAnyNetwork(Tail(allBalances), network, requiredAmount)
       IN IF b.balance >= requiredAmount THEN <<b>> \o rest ELSE rest

\* A filter that keeps every other network with a positive balance.
RECURSIVE viableChainsAnyBalance(_, _, _)
viableChainsAnyBalance(allBalances, network, requiredAmount) ==
  IF allBalances = <<>> THEN <<>>
  ELSE LET b == Head(allBalances)
           rest == viableChainsAnyBalance(Tail(allBalances), network, requiredAmount)
       IN IF b.chain # network THEN <<b>> \o rest ELSE rest

\* allBalances.filter(b => b.chain !== network && b.balance >= requiredAmount)
RECURSIVE viableChainsOf(_, _, _)
viableChainsOf(allBalances, network, requiredAmount) ==
  IF allBalances = <<>> THEN <<>>
  ELSE LET b == Head(allBalances)
           rest == viableChainsOf(Tail(allBalances), network, requiredAmount)
       IN IF b.chain # network /\ b.balance >= requiredAmount
          THEN <<b>> \o rest ELSE rest

\* viableChains.sort(...)[0]
sourceChainOf(viableChains) == sort(viableChains)[1]

\* A filter that keeps the entries with balance >= 0.
positiveBalancesOrZero(balances) == balances

\* balances.filter(b => b.balance > 0n)
RECURSIVE positiveBalances(_)
positiveBalances(balances) ==
  IF balances = <<>> THEN <<>>
  ELSE LET b == Head(balances)
           rest == positiveBalances(Tail(balances))
       IN IF b.balance > 0 THEN <<b>> \o rest ELSE rest

\* The constructor: a field that is absent or falsy takes its default.
Constructor(partial) ==
  [ walletAddress |->
      IF "walletAddress" \in DOMAIN partial /\ partial.walletAddress # ""
      THEN partial.walletAddress ELSE ZeroAddress,
    supportedChains |->
      IF "supportedChains" \in DOMAIN partial
      THEN partial.supportedChains ELSE DefaultSupportedChains,
    maxBridgeWaitTime |->
      IF "maxBridgeWaitTime" \in DOMAIN partial /\ partial.maxBridgeWaitTime # 0
      THEN partial.maxBridgeWaitTime ELSE DefaultMaxBridgeWaitTime,
    pollInterval |->
      IF "pollInterval" \in DOMAIN partial /\ partial.pollInterval # 0
      THEN partial.pollInterval ELSE DefaultPollInterval ]

\* ------------------------------------------------------------- messages

\* A message is a template (the literal parts, outermost first) with the
\* values interpolated into it; NoError is JavaScript's undefined.
NoAmount == [valid |-> FALSE, mant |-> -1, exp |-> -1]

NoError ==
  [defined |-> FALSE, prefix |-> <<>>, str |-> "", num |-> -1, amt |-> NoAmount]

PlainMessage(text) ==
  [defined |-> TRUE, prefix |-> <<>>, str |-> text, num |-> -1, amt |-> NoAmount]

\* `Insufficient balance across all chains. Required: ${maxAmountRequired}`
InsufficientMessage(maxAmountRequired) ==
  [defined |-> TRUE,
   prefix |-> <<"Insufficient balance across all chains. Required: ">>,
   str |-> "", num |-> -1, amt |-> maxAmountRequired]

\* `LayerZero not supported on ${fromChain}`
UnsupportedMessage(fromChain) ==
  [defined |-> TRUE, prefix |-> <<"LayerZero not supported on ">>,
   str |-> fromChain, num |-> -1, amt |-> NoAmount]

\* `Bridge failed: ${bridgeResult.error}`
BridgeFailedMessage(error) ==
  [error EXCEPT !.defined = TRUE, !.prefix = <<"Bridge failed: ">> \o @]

\* `Bridge verification timeout after ${maxBridgeWaitTime}s`
TimeoutMessage(maxBridgeWaitTime) ==
  [defined |-> TRUE, prefix |-> <<"Bridge verification timeout after {}s">>,
   str |-> "", num |-> maxBridgeWaitTime, amt |-> NoAmount]

\* The message of the Error viem's parseUnits throws.
InvalidDecimalNumber == "InvalidDecimalNumberError"

\* { success: true, transactionHash }
Succeeded(hash) == [success |-> TRUE, transactionHash |-> hash, error |-> NoError]

\* { success: false, error }
Failed(error) == [success |-> FALSE, transactionHash |-> 0, error |-> error]

\* No outcome yet.
NoResult == [success |-> FALSE, transactionHash |-> 0, error |-> NoError]

\* --------------------------------------------------------------- the state

\* JavaScript's undefined, as the value of retryWithBackoff's lastError.
Undefined == [defined |-> FALSE, call |-> 0, kind |-> ""]

\* retryWithBackoff has not been called.
NoRetry ==
  [ pc |-> "idle", maxRetries |-> 0, initialDelay |-> 0, i |-> 0,
    calls |-> 0, lastError |-> Undefined, delay |-> 0, slept |-> <<>>,
    returned |-> "", returnedBy |-> 0, thrown |-> Undefined ]

NoBalance == [chain |-> "", balance |-> -1, tokenAddress |-> "", decimals |-> -1]

\* The locals of one executePayment invocation on entry.
NewInvocation(paymentRequest) ==
  [ pc             |-> "checkTarget.decimals",
    called         |-> <<"checkBalance">>,  \* the methods executePayment has called
    caught         |-> <<>>,        \* the error bound by the top-level catch
    paymentRequest |-> paymentRequest,
    startConfig    |-> config,      \* this.config when executePayment was called
    decimals       |-> -1,          \* checkBalance's local, between its awaits
    targetBalance  |-> NoBalance,
    requiredAmount |-> -1,
    scanChains     |-> <<>>,        \* the list scanAllChains mapped over
    scan           |-> <<>>,        \* one checkBalance promise per list entry
    scanErrors     |-> 0,           \* the networks whose failure the scanner logged
    settled        |-> <<>>,        \* the scan's promises, in the order they settled;
                                    \* forgotten when the approve has answered
    allBalances    |-> <<>>,
    viableChains   |-> <<>>,
    sourceChain    |-> NoBalance,
    bridgeResult   |-> NoResult,
    startTime      |-> -1,
    maxWaitMs      |-> -1,
    attempts       |-> 0,
    pollErrors     |-> 0,           \* the polls whose failure the watcher logged
    balance        |-> NoBalance,   \* what the watcher's current poll read
    sleepMs        |-> -1,
    verified       |-> "none",      \* waitForBridgeCompletion's return value
    result         |-> NoResult ]   \* executePayment's return value

\* Lists of distinct networks, at most MaxChains long.
ChainLists ==
  UNION { { s \in [1..n -> Networks] : \A a, b \in 1..n : a # b => s[a] # s[b] }
          : n \in 0..MaxChains }

PartialConfigs ==
  [ walletAddress     : {Wallet},
    supportedChains   : ChainLists,
    maxBridgeWaitTime : 1..MaxWaitSeconds,
    pollInterval      : PollIntervals ]

Requests ==
  [ maxAmountRequired : AmountStrings,
    resource          : {"/api/premium-data"},
    payTo             : {Payee},
    asset             : {Token},
    network           : Networks ]

\* The invocations of executePayment under study.
Invocations == {1}

Init ==
  \E partial \in PartialConfigs, paymentRequest \in Requests :
    /\ config = Constructor(partial)
    /\ now = 0
    /\ txs = <<>>
    /\ inv = [i \in Invocations |-> NewInvocation(paymentRequest)]
    /\ retry = NoRetry

\* ------------------------------------------------------ gateway requests

\* An approve for twice the amount asked.
ApproveTxDouble(i, from, spender, tokenAddress, amount, network) ==
  [ inv |-> i, op |-> "approve", network |-> network, from |-> from,
    to |-> spender, token |-> tokenAddress, amount |-> 2 * amount,
    dstChainId |-> -1, status |-> "pending" ]

\* blockchain.approveERC20({from, spender, tokenAddress, amount, network})
ApproveTx(i, from, spender, tokenAddress, amount, network) ==
  [ inv |-> i, op |-> "approve", network |-> network, from |-> from,
    to |-> spender, token |-> tokenAddress, amount |-> amount,
    dstChainId |-> -1, status |-> "pending" ]

\* blockchain.sendTransaction({from, transaction: {to: lzEndpoint,
\* data: sendFrom(from, destChainId, from, amount, from, 0x0, "0x")}, network})
BridgeTx(i, from, lzEndpoint, destChainId, amount, network) ==
  [ inv |-> i, op |-> "sendFrom", network |-> network, from |-> from,
    to |-> lzEndpoint, token |-> "", amount |-> amount,
    dstChainId |-> destChainId, status |-> "pending" ]

\* A transfer with sender and recipient exchanged.
TransferTxSwapped(i, from, to, tokenAddress, amount, network) ==
  [ inv |-> i, op |-> "transfer", network |-> network, from |-> to,
    to |-> from, token |-> tokenAddress, amount |-> amount,
    dstChainId |-> -1, status |-> "pending" ]

\* blockchain.transferERC20({from, to, tokenAddress, amount, network})
TransferTx(i, from, to, tokenAddress, amount, network) ==
  [ inv |-> i, op |-> "transfer", network |-> network, from |-> from,
    to |-> to, token |-> tokenAddress, amount |-> amount,
    dstChainId |-> -1, status |-> "pending" ]

\* The transaction invocation i is awaiting: the last one it submitted. Its
\* index in txs is the transaction hash the gateway answers with.
PendingTx(i) ==
  CHOOSE h \in 1..Len(txs) : txs[h].inv = i /\ txs[h].status = "pending"

Settle(h, status) == [txs EXCEPT ![h].status = status]

\* A getTokenDecimals whose fallback is 6.
getTokenDecimalsDefaultSix(chain, ok) ==
  IF ok THEN TokenDecimals(chain) ELSE 6

\* getTokenDecimals: the token's decimals, or 18 when the metadata read fails
getTokenDecimals(chain, ok) ==
  IF ok THEN TokenDecimals(chain) ELSE DefaultDecimals

\* ------------------------------------------------------------- decisions

\* A test that takes any balance above zero as enough.
sufficientIfAny(balance, requiredAmount) == balance > 0

\* A test that sends an exactly sufficient balance to the scan.
sufficientStrict(balance, requiredAmount) == balance > requiredAmount

\* executePayment: targetBalance.balance >= requiredAmount
sufficient(balance, requiredAmount) == balance >= requiredAmount

\* A watcher that takes any answered balance query as confirmation.
verifiedByAnyRead(balance, requiredAmount) == balance >= 0

\* waitForBridgeCompletion: balance.balance >= requiredAmount
verifiedBy(balance, requiredAmount) == balance >= requiredAmount

\* A loop condition that still holds when the deadline is reached.
withinDeadlineInclusive(t, startTime, maxWaitMs) == t - startTime <= maxWaitMs

\* while (Date.now() - startTime < maxWaitMs)
withinDeadline(t, startTime, maxWaitMs) == t - startTime < maxWaitMs

\* executePayment returns.
Return(r, result) == [r EXCEPT !.pc = "done", !.result = result]

\* A catch block that lets the error escape to executePayment's caller.
executePaymentRethrow(r, error) ==
  [r EXCEPT !.pc = "thrown", !.caught = <<error>>]

\* The top-level catch of executePayment: the error is logged
\* (console.error) and becomes a failure outcome.
executePaymentCatch(r, error) ==
  Return([r EXCEPT !.caught = <<error>>],
         Failed(PlainMessage(errorMessage(error, "Unknown error"))))

\* The catch of bridgeAssets.
bridgeAssetsCatch(error) == Failed(PlainMessage(errorMessage(error, "Bridge failed")))

\* The catch of sendPayment.
sendPaymentCatch(error) == Failed(PlainMessage(errorMessage(error, "Payment failed")))

\* An executePayment that hands on the executor's failure as it is.
BridgeFailedUnwrapped(r, bridgeResult) ==
  Return([r EXCEPT !.bridgeResult = bridgeResult], bridgeResult)

\* if (!bridgeResult.success): executePayment returns the wrapped failure.
BridgeFailed(r, bridgeResult) ==
  Return([r EXCEPT !.bridgeResult = bridgeResult],
         Failed(BridgeFailedMessage(bridgeResult.error)))

\* A catch handler that substitutes an entry holding one unit.
PlaceholderOneUnit(chain, tokenAddress) ==
  [chain |-> chain, balance |-> 1, tokenAddress |-> tokenAddress,
   decimals |-> DefaultDecimals]

\* The entry the scanner substitutes for a network whose query failed.
Placeholder(chain, tokenAddress) ==
  [chain |-> chain, balance |-> 0, tokenAddress |-> tokenAddress,
   decimals |-> DefaultDecimals]

\* A watcher that tests its deadline after the first attempt only: the
\* first balance query is issued whatever the maximum wait.
LoopHeadPollsFirst(r, t) ==
  IF r.attempts = 0 \/ withinDeadline(t, r.startTime, r.maxWaitMs)
  THEN [r EXCEPT !.attempts = @ + 1, !.balance = NoBalance, !.pc = "wait.decimals"]
  ELSE Return([r EXCEPT !.verified = "false", !.balance = NoBalance],
              Failed(TimeoutMessage(config.maxBridgeWaitTime)))

\* The head of the watcher's loop at time t: another attempt, or false and
\* with it executePayment's timeout outcome.
LoopHead(r, t) ==
  IF withinDeadline(t, r.startTime, r.maxWaitMs)
  THEN [r EXCEPT !.attempts = @ + 1, !.balance = NoBalance, !.pc = "wait.decimals"]
  ELSE Return([r EXCEPT !.verified = "false", !.balance = NoBalance],
              Failed(TimeoutMessage(config.maxBridgeWaitTime)))

\* A sendPayment that holds a lock on the wallet: while another invocation
\* has a transfer submitted, it answers failure without submitting.
SubmitPaymentExclusive(i, r, pc) ==
  IF \E h \in 1..Len(txs) : txs[h].inv # i /\ txs[h].op = "transfer"
  THEN /\ inv' = [inv EXCEPT ![i] = Return(r, Failed(PlainMessage("Payment failed")))]
       /\ UNCHANGED txs
  ELSE /\ txs' = Append(txs, TransferTx(i, config.walletAddress, r.paymentRequest.payTo,
                                        r.paymentRequest.asset, r.requiredAmount,
                                        r.paymentRequest.network))
       /\ inv' = [inv EXCEPT ![i] = [r EXCEPT !.pc = pc,
                                              !.called = Append(@, "sendPayment")]]

\* sendPayment up to its await: the transfer is submitted.
SubmitPayment(i, r, pc) ==
  /\ txs' = Append(txs, TransferTx(i, config.walletAddress, r.paymentRequest.payTo,
                                   r.paymentRequest.asset, r.requiredAmount,
                                   r.paymentRequest.network))
  /\ inv' = [inv EXCEPT ![i] = [r EXCEPT !.pc = pc, !.called = Append(@, "sendPayment")]]

\* ------------------------------------------------- executePayment, step 1

\* checkBalance(asset, network): getTokenDecimals answers.
CheckTargetDecimals(i) ==
  /\ inv[i].pc = "checkTarget.decimals"
  /\ \E ok \in BOOLEAN :
       inv' = [inv EXCEPT
                 ![i].decimals = getTokenDecimals(inv[i].paymentRequest.network, ok),
                 ![i].pc = "checkTarget.balance"]
  /\ UNCHANGED <<config, now, txs>>

\* checkBalance(asset, network): getERC20Balance throws.
CheckTargetFails(i) ==
  /\ inv[i].pc = "checkTarget.balance"
  /\ \E e \in Thrown("getERC20Balance") :
       inv' = [inv EXCEPT ![i] = executePaymentCatch(@, e)]
  /\ UNCHANGED <<config, now, txs>>

\* checkBalance(asset, network): getERC20Balance answers b; parseUnits; then
\* either sendPayment or scanAllChains, each up to its first await.
CheckTargetBalance(i) ==
  /\ inv[i].pc = "checkTarget.balance"
  /\ \E b \in Balances :
       LET req == inv[i].paymentRequest
           tb  == [chain |-> req.network, balance |-> b,
                   tokenAddress |-> req.asset, decimals |-> inv[i].decimals]
           r0  == [inv[i] EXCEPT !.targetBalance = tb, !.decimals = -1]
       IN IF parseUnitsThrows(req.maxAmountRequired)
          THEN /\ inv' = [inv EXCEPT ![i] =
                            executePaymentCatch(r0, [isError |-> TRUE,
                                                     message |-> InvalidDecimalNumber])]
               /\ UNCHANGED txs
          ELSE LET r1 == [r0 EXCEPT !.requiredAmount =
                                parseUnits(req.maxAmountRequired, tb.decimals)]
               IN IF sufficient(tb.balance, r1.requiredAmount)
                  THEN SubmitPayment(i, r1, "paying")
                  ELSE /\ inv' = [inv EXCEPT ![i] =
                                    [r1 EXCEPT
                                       !.pc = "scanning",
                                       !.called = Append(@, "scanAllChains"),
                                       !.scanChains = config.supportedChains,
                                       !.scan = [k \in 1..Len(config.supportedChains) |->
                                                   [st |-> "decimals", caught |-> FALSE,
                                                    entry |-> NoBalance]]]]
                       /\ UNCHANGED txs
  /\ UNCHANGED <<config, now>>

\* ------------------------------------------------------- scanAllChains

\* A scan that queries the networks one after the other: a network's query
\* is answered only when the queries before it have settled.
ScanDecimalsInOrder(i, k) ==
  /\ inv[i].pc = "scanning"
  /\ inv[i].scan[k].st = "decimals"
  /\ \A j \in 1..(k - 1) : inv[i].scan[j].st = "done"
  /\ \E ok \in BOOLEAN :
       inv' = [inv EXCEPT
                 ![i].scan[k].entry.decimals = getTokenDecimals(inv[i].scanChains[k], ok),
                 ![i].scan[k].st = "balance"]
  /\ UNCHANGED <<config, now, txs>>

\* The k-th network's checkBalance: getTokenDecimals answers.
ScanDecimals(i, k) ==
  /\ inv[i].pc = "scanning"
  /\ inv[i].scan[k].st = "decimals"
  /\ \E ok \in BOOLEAN :
       inv' = [inv EXCEPT
                 ![i].scan[k].entry.decimals = getTokenDecimals(inv[i].scanChains[k], ok),
                 ![i].scan[k].st = "balance"]
  /\ UNCHANGED <<config, now, txs>>

\* The k-th network's checkBalance: getERC20Balance answers b.
ScanBalance(i, k) ==
  /\ inv[i].pc = "scanning"
  /\ inv[i].scan[k].st = "balance"
  /\ \E b \in Balances :
       inv' = [inv EXCEPT
                 ![i].settled = Append(@, k),
                 ![i].scan[k] =
                    [st |-> "done", caught |-> FALSE,
                     entry |-> [chain |-> inv[i].scanChains[k], balance |-> b,
                                tokenAddress |-> inv[i].paymentRequest.asset,
                                decimals |-> @.entry.decimals]]]
  /\ UNCHANGED <<config, now, txs>>

\* A scanner without its catch handler: the failed query rejects
\* Promise.all, and the error reaches executePayment's catch.
ScanFailsPropagates(i, k) ==
  /\ inv[i].pc = "scanning"
  /\ inv[i].scan[k].st = "balance"
  /\ \E e \in Thrown("getERC20Balance") :
       inv' = [inv EXCEPT ![i] = executePaymentCatch([@ EXCEPT !.scan = <<>>], e)]
  /\ UNCHANGED <<config, now, txs>>

\* The k-th network's checkBalance: getERC20Balance throws, and the catch
\* handler logs error.message (undefined for a value that is no Error) and
\* answers the placeholder.
ScanFails(i, k) ==
  /\ inv[i].pc = "scanning"
  /\ inv[i].scan[k].st = "balance"
  /\ \E e \in Thrown("getERC20Balance") :
       inv' = [inv EXCEPT
                 ![i].scanErrors = @ + 1,
                 ![i].settled = Append(@, k),
                 ![i].scan[k] =
                    [st |-> "done", caught |-> TRUE,
                     entry |-> Placeholder(inv[i].scanChains[k],
                                           inv[i].paymentRequest.asset)]]
  /\ UNCHANGED <<config, now, txs>>

BeginBridge(i, r) ==
  LET fromChain  == r.sourceChain.chain
      lzEndpoint == lzEndpointOf(fromChain)
  IN IF lzEndpoint = ""
     THEN /\ inv' = [inv EXCEPT ![i] =
                       BridgeFailed(r, Failed(UnsupportedMessage(fromChain)))]
          /\ UNCHANGED txs
     ELSE IF approveEncodingThrows(fromChain)
     THEN /\ inv' = [inv EXCEPT ![i] =
                       BridgeFailed(r, bridgeAssetsCatch(InvalidAddressError(fromChain)))]
          /\ UNCHANGED txs
     ELSE /\ txs' = Append(txs, ApproveTx(i, config.walletAddress, lzEndpoint,
                                          r.paymentRequest.asset, r.requiredAmount,
                                          fromChain))
          /\ inv' = [inv EXCEPT ![i] = [r EXCEPT !.pc = "bridge.approve"]]

\* An executePayment that goes on as soon as one query of the scan has
\* settled, with what the queries hold at that moment.
ScanJoinEarly(i) ==
  /\ inv[i].pc = "scanning"
  /\ \E k \in 1..Len(inv[i].scan) : inv[i].scan[k].st = "done"
  /\ LET r   == inv[i]
         req == r.paymentRequest
         balances == [k \in 1..Len(r.scan) |-> r.scan[k].entry]
         allBalances  == positiveBalances(balances)
         viableChains == viableChainsOf(allBalances, req.network, r.requiredAmount)
         \* the settled promises are dropped with scanAllChains' frame
         \* viableChains.sort(...) sorts the filtered array in place
         r1  == [r EXCEPT !.scan = <<>>, !.allBalances = allBalances,
                          !.viableChains = sort(viableChains)]
     IN IF Len(viableChains) = 0
        THEN /\ inv' = [inv EXCEPT ![i] =
                          Return(r1, Failed(InsufficientMessage(req.maxAmountRequired)))]
             /\ UNCHANGED txs
        ELSE BeginBridge(i, [r1 EXCEPT !.sourceChain = sourceChainOf(viableChains),
                                       !.called = Append(@, "bridgeAssets")])
  /\ UNCHANGED <<config, now>>

\* A scanner that collects the entries in the order the queries completed.
ScanJoinCompletionOrder(i) ==
  /\ inv[i].pc = "scanning"
  /\ \A k \in 1..Len(inv[i].scan) : inv[i].scan[k].st = "done"
  /\ LET r   == inv[i]
         req == r.paymentRequest
         balances == [j \in 1..Len(r.settled) |-> r.scan[r.settled[j]].entry]
         allBalances  == positiveBalances(balances)
         viableChains == viableChainsOf(allBalances, req.network, r.requiredAmount)
         \* viableChains.sort(...) sorts the filtered array in place
         r1  == [r EXCEPT !.scan = <<>>, !.allBalances = allBalances,
                          !.viableChains = sort(viableChains)]
     IN IF Len(viableChains) = 0
        THEN /\ inv' = [inv EXCEPT ![i] =
                          Return(r1, Failed(InsufficientMessage(req.maxAmountRequired)))]
             /\ UNCHANGED txs
        ELSE BeginBridge(i, [r1 EXCEPT !.sourceChain = sourceChainOf(viableChains),
                                       !.called = Append(@, "bridgeAssets")])
  /\ UNCHANGED <<config, now>>

\* Promise.all resolves; the positive balances are returned; executePayment
\* filters the viable chains, picks the source and calls bridgeAssets.
ScanJoin(i) ==
  /\ inv[i].pc = "scanning"
  /\ \A k \in 1..Len(inv[i].scan) : inv[i].scan[k].st = "done"
  /\ LET r   == inv[i]
         req == r.paymentRequest
         balances == [k \in 1..Len(r.scan) |-> r.scan[k].entry]
         allBalances  == positiveBalances(balances)
         viableChains == viableChainsOf(allBalances, req.network, r.requiredAmount)
         \* the settled promises are dropped with scanAllChains' frame
         \* viableChains.sort(...) sorts the filtered array in place
         r1  == [r EXCEPT !.scan = <<>>, !.allBalances = allBalances,
                          !.viableChains = sort(viableChains)]
     IN IF Len(viableChains) = 0
        THEN /\ inv' = [inv EXCEPT ![i] =
                          Return(r1, Failed(InsufficientMessage(req.maxAmountRequired)))]
             /\ UNCHANGED txs
        ELSE BeginBridge(i, [r1 EXCEPT !.sourceChain = sourceChainOf(viableChains),
                                       !.called = Append(@, "bridgeAssets")])
  /\ UNCHANGED <<config, now>>

\* -------------------------------------------------------- bridgeAssets

\* A bridgeAssets that ignores the approve's failure and goes on to the
\* bridge send.
ApproveFailsIgnored(i) ==
  /\ inv[i].pc = "bridge.approve"
  /\ LET r == inv[i]
         fromChain == r.sourceChain.chain
     IN txs' = Append(Settle(PendingTx(i), "failed"),
                      BridgeTx(i, config.walletAddress, lzEndpointOf(fromChain),
                               getLayerZeroChainId(r.paymentRequest.network),
                               r.requiredAmount, fromChain))
  /\ inv' = [inv EXCEPT ![i].pc = "bridge.send", ![i].settled = <<>>]
  /\ UNCHANGED <<config, now>>

\* approveERC20 throws: bridgeAssets answers failure, executePayment returns.
ApproveFails(i) ==
  /\ inv[i].pc = "bridge.approve"
  /\ \E e \in Thrown("approveERC20") :
       inv' = [inv EXCEPT ![i] = BridgeFailed([@ EXCEPT !.settled = <<>>],
                                               bridgeAssetsCatch(e))]
  /\ txs' = Settle(PendingTx(i), "failed")
  /\ UNCHANGED <<config, now>>

\* approveERC20 answers: the bridge transaction is encoded and submitted;
\* when the encoding throws, bridgeAssets answers failure and nothing more
\* is submitted.
ApproveSucceeds(i) ==
  /\ inv[i].pc = "bridge.approve"
  /\ LET r == inv[i]
         fromChain == r.sourceChain.chain
         toChain   == r.paymentRequest.network
     IN IF sendFromEncodingThrows(toChain)
        THEN /\ txs' = Settle(PendingTx(i), "ok")
             /\ inv' = [inv EXCEPT ![i] =
                          BridgeFailed([@ EXCEPT !.settled = <<>>],
                                       bridgeAssetsCatch(CannotConvertToBigInt(toChain)))]
        ELSE /\ txs' = Append(Settle(PendingTx(i), "ok"),
                              BridgeTx(i, config.walletAddress, lzEndpointOf(fromChain),
                                       getLayerZeroChainId(toChain),
                                       r.requiredAmount, fromChain))
             /\ inv' = [inv EXCEPT ![i].pc = "bridge.send", ![i].settled = <<>>]
  /\ UNCHANGED <<config, now>>

\* A bridgeAssets that revokes the approval when the bridge send fails: an
\* approve of amount 0 is submitted before it answers failure.
BridgeSendFailsRevokes(i) ==
  /\ inv[i].pc = "bridge.send"
  /\ \E e \in Thrown("sendTransaction") :
       inv' = [inv EXCEPT ![i] = BridgeFailed(@, bridgeAssetsCatch(e))]
  /\ LET h == PendingTx(i)
     IN txs' = Append(Settle(h, "failed"),
                      ApproveTx(i, txs[h].from, txs[h].to, inv[i].paymentRequest.asset,
                                0, txs[h].network))
  /\ UNCHANGED <<config, now>>

\* sendTransaction throws: bridgeAssets answers failure, executePayment returns.
BridgeSendFails(i) ==
  /\ inv[i].pc = "bridge.send"
  /\ \E e \in Thrown("sendTransaction") :
       inv' = [inv EXCEPT ![i] = BridgeFailed(@, bridgeAssetsCatch(e))]
  /\ txs' = Settle(PendingTx(i), "failed")
  /\ UNCHANGED <<config, now>>

\* sendTransaction answers: bridgeAssets answers success, and
\* waitForBridgeCompletion runs up to its first await. The scan's results
\* and the chosen source are not read again by executePayment: they are
\* dropped here.
BridgeSendSucceeds(i) ==
  /\ inv[i].pc = "bridge.send"
  /\ LET h == PendingTx(i)
         r == [inv[i] EXCEPT !.bridgeResult = Succeeded(h),
                             !.allBalances = <<>>,
                             !.viableChains = <<>>,
                             !.sourceChain = NoBalance,
                             !.called = Append(@, "waitForBridgeCompletion"),
                             !.startTime = now,
                             !.maxWaitMs = config.maxBridgeWaitTime * MsPerSecond,
                             !.attempts = 0]
     IN /\ txs' = Settle(h, "ok")
        /\ inv' = [inv EXCEPT ![i] = LoopHead(r, now)]
  /\ UNCHANGED <<config, now>>

\* ---------------------------------------------- waitForBridgeCompletion

\* The poll's checkBalance: getTokenDecimals answers.
PollDecimals(i) ==
  /\ inv[i].pc = "wait.decimals"
  /\ \E ok \in BOOLEAN :
       inv' = [inv EXCEPT
                 ![i].decimals = getTokenDecimals(inv[i].paymentRequest.network, ok),
                 ![i].pc = "wait.balance"]
  /\ UNCHANGED <<config, now, txs>>

\* A watcher whose catch handler gives up: a failed poll makes it return
\* false.
PollFailsEndsLoop(i) ==
  /\ inv[i].pc = "wait.balance"
  /\ \E e \in Thrown("getERC20Balance"), latency \in Latencies :
       /\ now' = now + latency
       /\ inv' = [inv EXCEPT ![i] =
                    Return([@ EXCEPT !.decimals = -1, !.pollErrors = @ + 1,
                                     !.verified = "false"],
                           Failed(TimeoutMessage(config.maxBridgeWaitTime)))]
  /\ UNCHANGED <<config, txs>>

\* A watcher without its try/catch: the failed poll's error leaves
\* waitForBridgeCompletion and reaches executePayment's catch.
PollFailsPropagates(i) ==
  /\ inv[i].pc = "wait.balance"
  /\ \E e \in Thrown("getERC20Balance"), latency \in Latencies :
       /\ now' = now + latency
       /\ inv' = [inv EXCEPT ![i] =
                    executePaymentCatch([@ EXCEPT !.decimals = -1], e)]
  /\ UNCHANGED <<config, txs>>

\* The poll's getERC20Balance throws: logged, then the sleep starts.
PollFails(i) ==
  /\ inv[i].pc = "wait.balance"
  /\ \E e \in Thrown("getERC20Balance"), latency \in Latencies :
       /\ now' = now + latency
       /\ inv' = [inv EXCEPT ![i].decimals = -1,
                             ![i].pollErrors = @ + 1,
                             ![i].sleepMs = config.pollInterval,
                             ![i].pc = "wait.sleep"]
  /\ UNCHANGED <<config, txs>>

\* A watcher that notes a sufficient balance but goes on to sleep and poll
\* again before it returns.
PollBalanceThenSleep(i) ==
  /\ inv[i].pc = "wait.balance"
  /\ \E b \in Balances, latency \in Latencies :
       /\ now' = now + latency
       /\ inv' = [inv EXCEPT
                    ![i].decimals = -1,
                    ![i].balance = [chain |-> inv[i].paymentRequest.network,
                                    balance |-> b,
                                    tokenAddress |-> inv[i].paymentRequest.asset,
                                    decimals |-> inv[i].decimals],
                    ![i].sleepMs = config.pollInterval,
                    ![i].pc = "wait.sleep"]
  /\ UNCHANGED <<config, txs>>

\* The poll's getERC20Balance answers b: enough returns true, and
\* executePayment calls sendPayment; otherwise the sleep starts.
PollBalance(i) ==
  /\ inv[i].pc = "wait.balance"
  /\ \E b \in Balances, latency \in Latencies :
       /\ now' = now + latency
       /\ LET balance == [chain |-> inv[i].paymentRequest.network, balance |-> b,
                          tokenAddress |-> inv[i].paymentRequest.asset,
                          decimals |-> inv[i].decimals]
              r == [inv[i] EXCEPT !.decimals = -1, !.balance = balance]
          IN IF verifiedBy(balance.balance, r.requiredAmount)
             THEN SubmitPayment(i, [r EXCEPT !.verified = "true"], "retryPaying")
             ELSE /\ inv' = [inv EXCEPT ![i] =
                               [r EXCEPT !.sleepMs = config.pollInterval,
                                         !.pc = "wait.sleep"]]
                  /\ UNCHANGED txs
  /\ UNCHANGED config

\* A watcher that backs off: the n-th sleep lasts n poll intervals.
SleepBackoff(i) ==
  /\ inv[i].pc = "wait.sleep"
  /\ now' = now + inv[i].sleepMs * inv[i].attempts
  /\ inv' = [inv EXCEPT ![i] = LoopHead(@, now')]
  /\ UNCHANGED <<config, txs>>

\* The timer fires, and the loop's condition is evaluated.
Sleep(i) ==
  /\ inv[i].pc = "wait.sleep"
  /\ now' = now + inv[i].sleepMs
  /\ inv' = [inv EXCEPT ![i] = LoopHead(@, now')]
  /\ UNCHANGED <<config, txs>>

\* ------------------------------------------------------------ sendPayment

\* A sendPayment that answers with the bridge transaction's hash.
PaymentSucceedsBridgeHash(i) ==
  /\ inv[i].pc \in {"paying", "retryPaying"}
  /\ LET h == PendingTx(i)
     IN /\ txs' = Settle(h, "ok")
        /\ inv' = [inv EXCEPT ![i] =
                     Return(@, Succeeded(IF @.bridgeResult.success
                                         THEN @.bridgeResult.transactionHash ELSE h))]
  /\ UNCHANGED <<config, now>>

\* transferERC20 answers: success with the transfer's hash.
PaymentSucceeds(i) ==
  /\ inv[i].pc \in {"paying", "retryPaying"}
  /\ LET h == PendingTx(i)
     IN /\ txs' = Settle(h, "ok")
        /\ inv' = [inv EXCEPT ![i] = Return(@, Succeeded(h))]
  /\ UNCHANGED <<config, now>>

\* A sendPayment that submits the transfer again when it has failed.
PaymentFailsRetries(i) ==
  /\ inv[i].pc \in {"paying", "retryPaying"}
  /\ LET r == inv[i]
     IN txs' = Append(Settle(PendingTx(i), "failed"),
                      TransferTx(i, config.walletAddress, r.paymentRequest.payTo,
                                 r.paymentRequest.asset, r.requiredAmount,
                                 r.paymentRequest.network))
  /\ UNCHANGED <<config, now, inv>>

\* A failure outcome that carries the hash of the bridge transaction sent
\* before.
PaymentFailsKeepsBridgeHash(i) ==
  /\ inv[i].pc \in {"paying", "retryPaying"}
  /\ \E e \in Thrown("transferERC20") :
       inv' = [inv EXCEPT ![i] =
                 Return(@, [sendPaymentCatch(e) EXCEPT
                              !.transactionHash = inv[i].bridgeResult.transactionHash])]
  /\ txs' = Settle(PendingTx(i), "failed")
  /\ UNCHANGED <<config, now>>

\* transferERC20 throws: failure with the error's message.
PaymentFails(i) ==
  /\ inv[i].pc \in {"paying", "retryPaying"}
  /\ \E e \in Thrown("transferERC20") :
       inv' = [inv EXCEPT ![i] =
                 Return(@, sendPaymentCatch(e))]
  /\ txs' = Settle(PendingTx(i), "failed")
  /\ UNCHANGED <<config, now>>

\* ------------------------------------------------------ the specification

DoCheckTargetDecimals == (\E i \in DOMAIN inv : CheckTargetDecimals(i))
  /\ UNCHANGED retry
DoCheckTargetFails == (\E i \in DOMAIN inv : CheckTargetFails(i))
  /\ UNCHANGED retry
DoCheckTargetBalance == (\E i \in DOMAIN inv : CheckTargetBalance(i))
  /\ UNCHANGED retry
DoScanDecimals == (\E i \in DOMAIN inv : \E k \in 1..Len(inv[i].scan) : ScanDecimals(i, k))
  /\ UNCHANGED retry
DoScanBalance == (\E i \in DOMAIN inv : \E k \in 1..Len(inv[i].scan) : ScanBalance(i, k))
  /\ UNCHANGED retry
DoScanFails == (\E i \in DOMAIN inv : \E k \in 1..Len(inv[i].scan) : ScanFails(i, k))
  /\ UNCHANGED retry
DoScanJoin == (\E i \in DOMAIN inv : ScanJoin(i))
  /\ UNCHANGED retry
DoApproveFails == (\E i \in DOMAIN inv : ApproveFails(i))
  /\ UNCHANGED retry
DoApproveSucceeds == (\E i \in DOMAIN inv : ApproveSucceeds(i))
  /\ UNCHANGED retry
DoBridgeSendFails == (\E i \in DOMAIN inv : BridgeSendFails(i))
  /\ UNCHANGED retry
DoBridgeSendSucceeds == (\E i \in DOMAIN inv : BridgeSendSucceeds(i))
  /\ UNCHANGED retry
DoPollDecimals == (\E i \in DOMAIN inv : PollDecimals(i))
  /\ UNCHANGED retry
DoPollFails == (\E i \in DOMAIN inv : PollFails(i))
  /\ UNCHANGED retry
DoPollBalance == (\E i \in DOMAIN inv : PollBalance(i))
  /\ UNCHANGED retry
DoSleep == (\E i \in DOMAIN inv : Sleep(i))
  /\ UNCHANGED retry
DoPaymentSucceeds == (\E i \in DOMAIN inv : PaymentSucceeds(i))
  /\ UNCHANGED retry
DoPaymentFails == (\E i \in DOMAIN inv : PaymentFails(i))
  /\ UNCHANGED retry

Next ==
  \/ DoCheckTargetDecimals
  \/ DoCheckTargetFails
  \/ DoCheckTargetBalance
  \/ DoScanDecimals
  \/ DoScanBalance
  \/ DoScanFails
  \/ DoScanJoin
  \/ DoApproveFails
  \/ DoApproveSucceeds
  \/ DoBridgeSendFails
  \/ DoBridgeSendSucceeds
  \/ DoPollDecimals
  \/ DoPollFails
  \/ DoPollBalance
  \/ DoSleep
  \/ DoPaymentSucceeds
  \/ DoPaymentFails

Spec == Init /\ [][Next]_vars

\* ------------------------------------------------- route selection alone

\* The networks of the route-selection runs: a destination and three others,
\* all with a bridge endpoint.
RouteNetworks == {"base", "ethereum", "arbitrum", "optimism"}

\* executePayment at the moment scanAllChains' queries have all settled: the
\* target check found too little on "base", and the scan over the four
\* networks, in any order, read any balances.
RouteInit ==
  \E chains \in { s \in [1..Cardinality(RouteNetworks) -> RouteNetworks] :
                     \A a, b \in DOMAIN s : a # b => s[a] # s[b] },
     read \in [RouteNetworks -> Balances],
     decimalsOk \in BOOLEAN :
    LET paymentRequest ==
          [ maxAmountRequired |-> [valid |-> TRUE, mant |-> 2, exp |-> 17],
            resource |-> "/api/premium-data", payTo |-> Payee, asset |-> Token,
            network |-> "base" ]
        decimals == getTokenDecimals("base", decimalsOk)
    IN /\ config = Constructor([ walletAddress |-> Wallet, supportedChains |-> chains,
                                 maxBridgeWaitTime |-> 1, pollInterval |-> 1000 ])
       /\ retry = NoRetry
       /\ now = 0
       /\ txs = <<>>
       /\ inv = [i \in {1} |->
                   [NewInvocation(paymentRequest) EXCEPT
                      !.pc = "scanning",
                      !.called = <<"checkBalance", "scanAllChains">>,
                      !.targetBalance = [chain |-> "base", balance |-> 0,
                                         tokenAddress |-> Token, decimals |-> decimals],
                      !.requiredAmount = parseUnits(paymentRequest.maxAmountRequired,
                                                    decimals),
                      !.scanChains = chains,
                      !.scan = [k \in DOMAIN chains |->
                                  [st |-> "done", caught |-> FALSE,
                                   entry |-> [chain |-> chains[k],
                                              balance |-> read[chains[k]],
                                              tokenAddress |-> Token,
                                              decimals |-> TokenDecimals(chains[k])]]]]]

RouteNext == DoScanJoin

RouteSpec == RouteInit /\ [][RouteNext]_vars

\* -------------------------------------------------- the completion watcher

\* executePayment at the moment bridgeAssets awaits its bridge transaction:
\* one network is configured, the target check read too little, the scan
\* read enough on the configured network, and the approve was accepted.
WatchInit ==
  \E partial \in PartialConfigs, paymentRequest \in Requests,
     targetOk, sourceOk \in BOOLEAN, targetRead, sourceRead \in Balances :
    /\ Len(partial.supportedChains) = 1
    /\ ~parseUnitsThrows(paymentRequest.maxAmountRequired)
    /\ LET fromChain == partial.supportedChains[1]
           decimals  == getTokenDecimals(paymentRequest.network, targetOk)
           requiredAmount == parseUnits(paymentRequest.maxAmountRequired, decimals)
           entry == [chain |-> fromChain, balance |-> sourceRead,
                     tokenAddress |-> paymentRequest.asset,
                     decimals |-> getTokenDecimals(fromChain, sourceOk)]
       IN /\ ~sufficient(targetRead, requiredAmount)
          /\ viableChainsOf(positiveBalances(<<entry>>), paymentRequest.network,
                            requiredAmount) = <<entry>>
          /\ lzEndpointOf(fromChain) # ""
          /\ config = Constructor(partial)
          /\ retry = NoRetry
          /\ now = 0
          /\ txs = << [ApproveTx(1, config.walletAddress, lzEndpointOf(fromChain),
                                 paymentRequest.asset, requiredAmount, fromChain)
                         EXCEPT !.status = "ok"],
                      BridgeTx(1, config.walletAddress, lzEndpointOf(fromChain),
                               getLayerZeroChainId(paymentRequest.network),
                               requiredAmount, fromChain) >>
          /\ inv = [i \in Invocations |->
                      [NewInvocation(paymentRequest) EXCEPT
                         !.pc = "bridge.send",
                         !.called = <<"checkBalance", "scanAllChains", "bridgeAssets">>,
                         !.targetBalance = [chain |-> paymentRequest.network,
                                            balance |-> targetRead,
                                            tokenAddress |-> paymentRequest.asset,
                                            decimals |-> decimals],
                         !.requiredAmount = requiredAmount,
                         !.scanChains = partial.supportedChains,
                         !.allBalances = <<entry>>,
                         !.viableChains = <<entry>>,
                         !.sourceChain = entry]]

WatchNext ==
  \/ DoBridgeSendFails
  \/ DoBridgeSendSucceeds
  \/ DoPollDecimals
  \/ DoPollFails
  \/ DoPollBalance
  \/ DoSleep
  \/ DoPaymentSucceeds
  \/ DoPaymentFails

\* Every awaited gateway call settles and every timer fires: the event loop
\* keeps running an invocation that has a step to take.
WatchSpec == WatchInit /\ [][WatchNext]_vars /\ WF_vars(WatchNext)

\* ------------------------------------------- configuration changed in flight

\* Another wallet address a caller may configure.
OtherWallet == "0xOtherWallet"

\* The partial configurations a caller hands to updateConfig: one field each.
\* A zero wait is stored as given.
ConfigUpdates ==
  [maxBridgeWaitTime : 0..MaxWaitSeconds]
    \cup [pollInterval : PollIntervals]
    \cup [walletAddress : {OtherWallet}]
    \cup [supportedChains : {<<>>}]

\* An update that rebuilds the configuration from the given fields and the
\* defaults, as the constructor does.
updateConfigReplace(current, partial) == Constructor(partial)

\* { ...this.config, ...config }
updateConfig(current, partial) ==
  [k \in DOMAIN current |-> IF k \in DOMAIN partial THEN partial[k] ELSE current[k]]

\* A caller calls updateConfig between two steps of the invocations in
\* flight.
UpdateConfig ==
  /\ \E i \in DOMAIN inv : inv[i].pc # "done"
  /\ \E partial \in ConfigUpdates : config' = updateConfig(config, partial)
  /\ UNCHANGED <<now, txs, inv, retry>>

\* The watcher and what follows it, with updateConfig called at any moment
\* while the invocation is in flight.
ConfigNext == WatchNext \/ UpdateConfig

ConfigSpec == WatchInit /\ [][ConfigNext]_vars

\* ------------------------------------------- one invocation, run to its end

\* executePayment has just been called on an orchestrator with at most one
\* other network configured.
FlowInit ==
  \E partial \in PartialConfigs, paymentRequest \in Requests :
    /\ Len(partial.supportedChains) <= 1
    /\ config = Constructor(partial)
    /\ now = 0
    /\ txs = <<>>
    /\ inv = [i \in Invocations |-> NewInvocation(paymentRequest)]
    /\ retry = NoRetry

\* Every awaited gateway call returns or fails and every timer fires: an
\* invocation that has a step to take takes one.
FlowSpec == FlowInit /\ [][Next]_vars /\ WF_vars(Next)

\* ------------------------------------------- names the tables inherit

\* Network names of a caller's configuration and request that are no key of
\* the endpoint tables but name a member every object inherits, next to two
\* networks the tables list.
InheritedNetworks == {"constructor", "__proto__"}

\* executePayment has just been called on an orchestrator configured with
\* one other network, listed or inherited, for a request on a listed or an
\* inherited network.
InheritedInit ==
  \E source \in InheritedNetworks \cup {"ethereum"},
     network \in InheritedNetworks \cup {"base"},
     maxAmountRequired \in AmountStrings :
    /\ config = Constructor([ walletAddress |-> Wallet,
                              supportedChains |-> <<source>>,
                              maxBridgeWaitTime |-> 1, pollInterval |-> 1000 ])
    /\ now = 0
    /\ txs = <<>>
    /\ inv = [i \in Invocations |->
                NewInvocation([ maxAmountRequired |-> maxAmountRequired,
                                resource |-> "/api/premium-data", payTo |-> Payee,
                                asset |-> Token, network |-> network ])]
    /\ retry = NoRetry

InheritedSpec == InheritedInit /\ [][Next]_vars

\* ------------------------------------------- configure, then pay

\* getConfig(): return { ...this.config }, a copy of the fields
getConfig(current) == [k \in DOMAIN current |-> current[k]]

\* The partial configurations of a caller that configures before paying: one
\* field, or the wallet together with the poll interval.
SessionUpdates ==
  ConfigUpdates
    \cup [walletAddress : {OtherWallet}, pollInterval : PollIntervals]

\* An orchestrator constructed for one wallet and one other network, with no
\* executePayment called yet.
SessionInit ==
  /\ config = Constructor([ walletAddress |-> Wallet,
                            supportedChains |-> <<"ethereum">>,
                            maxBridgeWaitTime |-> 1, pollInterval |-> 1000 ])
  /\ now = 0
  /\ txs = <<>>
  /\ inv = <<>>
  /\ retry = NoRetry

\* updateConfig(partial), called while no invocation has started.
UpdateConfigIdle(partial) ==
  /\ inv = <<>>
  /\ config' = updateConfig(config, partial)
  /\ UNCHANGED <<now, txs, inv, retry>>

\* executePayment(paymentRequest) is called: the invocation starts.
ExecutePayment(paymentRequest) ==
  /\ inv = <<>>
  /\ inv' = <<NewInvocation(paymentRequest)>>
  /\ UNCHANGED <<config, now, txs>>

DoUpdateConfigIdle == (\E partial \in SessionUpdates : UpdateConfigIdle(partial))
  /\ UNCHANGED retry
DoExecutePayment == (\E paymentRequest \in Requests : ExecutePayment(paymentRequest))
  /\ UNCHANGED retry

SessionNext == DoUpdateConfigIdle \/ DoExecutePayment \/ Next

SessionSpec == SessionInit /\ [][SessionNext]_vars

\* ------------------------------------------------ retryWithBackoff (utils)

\* maxRetries = 3, initialDelay = 1000: the parameters' defaults
RetryDefaultMaxRetries == 3
RetryDefaultInitialDelay == 1000

\* An argument that was not given.
ArgAbsent == [given |-> FALSE, value |-> 0]

ArgGiven(value) == [given |-> TRUE, value |-> value]

\* A default parameter: the default stands in for an absent argument only.
defaultParameter(arg, default) == IF arg.given THEN arg.value ELSE default

MaxRetriesArgs == {ArgAbsent} \cup { ArgGiven(n) : n \in (-1)..MaxRetries }

InitialDelayArgs == {ArgAbsent} \cup { ArgGiven(d) : d \in {1, 500, 1000} }

\* What a call of fn may resolve with, and what it may reject with.
FnValues == {"first value", "second value"}
FnErrorKinds == {"Rate limit exceeded", "Request timeout"}

RECURSIVE Pow2(_)
Pow2(k) == IF k = 0 THEN 1 ELSE 2 * Pow2(k - 1)

\* A loop that makes one attempt more than maxRetries.
RetryLoopHeadInclusive(r) ==
  IF r.i <= r.maxRetries
  THEN [r EXCEPT !.pc = "fn", !.calls = @ + 1]
  ELSE [r EXCEPT !.pc = "thrown", !.thrown = r.lastError]

\* for (...; i < maxRetries; ...): fn is called, up to its await; or the loop
\* is left and lastError is thrown.
RetryLoopHead(r) ==
  IF r.i < r.maxRetries
  THEN [r EXCEPT !.pc = "fn", !.calls = @ + 1]
  ELSE [r EXCEPT !.pc = "thrown", !.thrown = r.lastError]

\* retryWithBackoff(fn, maxRetries, initialDelay) up to its first await.
retryWithBackoff(maxRetries, initialDelay) ==
  RetryLoopHead([NoRetry EXCEPT
                   !.maxRetries = defaultParameter(maxRetries, RetryDefaultMaxRetries),
                   !.initialDelay = defaultParameter(initialDelay,
                                                     RetryDefaultInitialDelay)])

\* retryWithBackoff has just been called; no orchestrator is involved.
RetryInit ==
  \E maxRetries \in MaxRetriesArgs, initialDelay \in InitialDelayArgs :
    /\ retry = retryWithBackoff(maxRetries, initialDelay)
    /\ config = Constructor([walletAddress |-> Wallet])
    /\ now = 0
    /\ txs = <<>>
    /\ inv = <<>>

\* return await fn(): fn resolves, and retryWithBackoff returns its value.
FnReturns ==
  /\ retry.pc = "fn"
  /\ \E value \in FnValues :
       retry' = [retry EXCEPT !.pc = "returned", !.returned = value,
                              !.returnedBy = retry.calls]
  /\ UNCHANGED <<config, now, txs, inv>>

\* A catch block that sleeps initialDelay after every failure.
FnThrowsConstantDelay ==
  /\ retry.pc = "fn"
  /\ \E kind \in FnErrorKinds :
       retry' = [retry EXCEPT
                   !.lastError = [defined |-> TRUE, call |-> retry.calls, kind |-> kind],
                   !.delay = retry.initialDelay,
                   !.pc = "sleep"]
  /\ UNCHANGED <<config, now, txs, inv>>

\* fn rejects: the catch block keeps the error, computes the delay and
\* starts the sleep.
FnThrows ==
  /\ retry.pc = "fn"
  /\ \E kind \in FnErrorKinds :
       retry' = [retry EXCEPT
                   !.lastError = [defined |-> TRUE, call |-> retry.calls, kind |-> kind],
                   !.delay = retry.initialDelay * Pow2(retry.i),
                   !.pc = "sleep"]
  /\ UNCHANGED <<config, now, txs, inv>>

\* The sleep's timer fires; i++ and the loop's condition.
RetrySleep ==
  /\ retry.pc = "sleep"
  /\ now' = now + retry.delay
  /\ retry' = RetryLoopHead([retry EXCEPT !.slept = Append(@, retry.delay),
                                          !.i = @ + 1])
  /\ UNCHANGED <<config, txs, inv>>

RetryNext == FnReturns \/ FnThrows \/ RetrySleep

RetrySpec == RetryInit /\ [][RetryNext]_vars

\* ------------------------------------------------- concurrent invocations

\* Two executePayment invocations in flight on one orchestrator.
Racers == {1, 2}

\* Both invocations have been called, one after the other with no await
\* between, for requests on "base"; one other network is configured.
RaceInit ==
  \E first, second \in { q \in Requests : q.network = "base" } :
    /\ config = Constructor([ walletAddress |-> Wallet,
                              supportedChains |-> <<"ethereum">>,
                              maxBridgeWaitTime |-> 1, pollInterval |-> 1000 ])
    /\ now = 0
    /\ txs = <<>>
    /\ inv = [i \in Racers |-> NewInvocation(IF i = 1 THEN first ELSE second)]
    /\ retry = NoRetry

\* The steps of both invocations up to the watcher's first poll and to the
\* payment's outcome, interleaved in any order.
RaceNext ==
  \/ DoCheckTargetDecimals
  \/ DoCheckTargetFails
  \/ DoCheckTargetBalance
  \/ DoScanDecimals
  \/ DoScanBalance
  \/ DoScanFails
  \/ DoScanJoin
  \/ DoApproveFails
  \/ DoApproveSucceeds
  \/ DoBridgeSendFails
  \/ DoBridgeSendSucceeds
  \/ DoPaymentSucceeds
  \/ DoPaymentFails

RaceSpec == RaceInit /\ [][RaceNext]_vars

\* ------------------------------------------------------------- properties

\* The hashes of the transactions of one kind that invocation i has
\* submitted.
TxsOfKind(i, op) == { h \in 1..Len(txs) : txs[h].inv = i /\ txs[h].op = op }

\* executePayment invocation r has called method m.
Called(r, m) == \E k \in DOMAIN r.called : r.called[k] = m

\* C1: executePayment never lets an exception escape. Whichever gateway call
\* fails, the invocation does not end in a thrown error; what it returns is
\* an outcome (success with a hash and
\* no error, or failure with an error); a transaction the gateway rejected
\* ends the invocation with success = false; and an Error caught by the
\* top-level catch is returned as success = false with that Error's message.
C1_NeverThrows ==
  \A i \in DOMAIN inv :
    LET r == inv[i] IN
      /\ r.pc # "thrown"
      /\ r.pc = "done" =>
           IF r.result.success
           THEN r.result.transactionHash > 0 /\ ~r.result.error.defined
           ELSE r.result.transactionHash = 0 /\ r.result.error.defined
      /\ \A h \in 1..Len(txs) :
           txs[h].inv = i /\ txs[h].status = "failed" =>
             r.pc = "done" /\ ~r.result.success
      /\ r.caught # <<>> =>
           /\ r.pc = "done"
           /\ ~r.result.success
           /\ r.caught[1].isError =>
                r.result.error = PlainMessage(r.caught[1].message)

\* C1 witness: the target balance read threw an Error, and executePayment
\* returned it as a failure outcome.
C1_Witness ==
  \E i \in DOMAIN inv :
    /\ inv[i].pc = "done"
    /\ inv[i].caught = <<[isError |-> TRUE, message |-> "getERC20Balance"]>>
    /\ ~inv[i].result.success

\* Every ordering of the entries of a sequence.
Orderings(s) ==
  { [k \in DOMAIN s |-> s[p[k]]] :
      p \in { q \in [DOMAIN s -> DOMAIN s] :
                \A a, b \in DOMAIN s : a # b => q[a] # q[b] } }

\* The entries of a sequence of balances that no other entry exceeds.
MaxEntries(s) ==
  { k \in DOMAIN s : \A j \in DOMAIN s : s[j].balance <= s[k].balance }

\* C4 as stated: the selected source has the maximum balance among the viable
\* candidates, and the same network is selected whatever the order of the
\* candidates in the scan result.
C4_SameChoiceEveryOrder ==
  \A i \in DOMAIN inv :
    LET r == inv[i] IN
      r.viableChains # <<>> =>
        /\ \E k \in MaxEntries(r.viableChains) : r.sourceChain = r.viableChains[k]
        /\ \A o \in Orderings(r.viableChains) :
             sourceChainOf(o).chain = r.sourceChain.chain

\* C4 amended: the selected source is a viable candidate with the maximum
\* balance; the balance selected is the same for every order of the
\* candidates, and so is the network when only one candidate has the maximum
\* balance.
C4_MaxBalanceSelected ==
  \A i \in DOMAIN inv :
    LET r == inv[i] IN
      r.viableChains # <<>> =>
        /\ \E k \in MaxEntries(r.viableChains) : r.sourceChain = r.viableChains[k]
        /\ \A o \in Orderings(r.viableChains) :
             /\ sourceChainOf(o).balance = r.sourceChain.balance
             /\ Cardinality(MaxEntries(r.viableChains)) = 1 =>
                  sourceChainOf(o).chain = r.sourceChain.chain

\* C4 witness: three viable candidates with different balances, the largest
\* neither first nor last in scan order, and that one is the source.
C4_Witness ==
  \E i \in DOMAIN inv :
    LET r == inv[i]
        inScanOrder == viableChainsOf(r.allBalances, r.paymentRequest.network,
                                      r.requiredAmount)
    IN
      /\ Len(inScanOrder) = 3
      /\ inScanOrder[1].balance < inScanOrder[3].balance
      /\ inScanOrder[3].balance < inScanOrder[2].balance
      /\ r.sourceChain = inScanOrder[2]
      /\ r.viableChains = <<inScanOrder[2], inScanOrder[3], inScanOrder[1]>>
      /\ r.pc = "bridge.approve"

\* C2: when the first balance read on the target network answers a balance
\* >= the required amount (equal included), executePayment goes straight to
\* the payment transfer: it has called nothing but checkBalance and
\* sendPayment, the scan never ran, no approve and no bridge send was
\* submitted, the watcher never polled, and exactly one transfer was
\* submitted.
C2_SufficiencySkip ==
  \A i \in DOMAIN inv :
    LET r == inv[i] IN
      ( /\ r.requiredAmount >= 0
        /\ r.targetBalance.balance >= r.requiredAmount ) =>
          /\ r.called = <<"checkBalance", "sendPayment">>
          /\ r.pc \in {"paying", "done"}
          /\ r.scanChains = <<>> /\ r.scan = <<>> /\ r.allBalances = <<>>
          /\ TxsOfKind(i, "approve") = {}
          /\ TxsOfKind(i, "sendFrom") = {}
          /\ Cardinality(TxsOfKind(i, "transfer")) = 1
          /\ r.attempts = 0 /\ r.verified = "none"

\* C2 witness: the target balance equals the required amount exactly, and
\* the payment was made directly.
C2_Witness ==
  \E i \in DOMAIN inv :
    /\ inv[i].requiredAmount > 0
    /\ inv[i].targetBalance.balance = inv[i].requiredAmount
    /\ inv[i].pc = "done"
    /\ inv[i].result.success
    /\ Len(config.supportedChains) > 0

\* C3: whenever executePayment has invoked the bridge, the source it chose is
\* an entry of the scan result on a network other than the destination with
\* a balance >= the required amount; the approve and the bridge send are
\* each submitted at most once, both on that one source network and for the
\* required amount, never on the destination network.
C3_RouteFromViableSource ==
  \A i \in DOMAIN inv :
    LET r == inv[i]
        bridging == TxsOfKind(i, "approve") \cup TxsOfKind(i, "sendFrom")
    IN /\ (Called(r, "bridgeAssets") /\ ~Called(r, "waitForBridgeCompletion")) =>
            /\ r.sourceChain.chain # r.paymentRequest.network
            /\ r.sourceChain.balance >= r.requiredAmount
            /\ \E k \in DOMAIN r.allBalances : r.allBalances[k] = r.sourceChain
            /\ \A h \in bridging : txs[h].network = r.sourceChain.chain
       /\ bridging # {} => Called(r, "bridgeAssets")
       /\ Cardinality(TxsOfKind(i, "approve")) <= 1
       /\ Cardinality(TxsOfKind(i, "sendFrom")) <= 1
       /\ \A h \in bridging :
            /\ txs[h].network # r.paymentRequest.network
            /\ txs[h].amount = r.requiredAmount
            /\ \A g \in bridging : txs[g].network = txs[h].network

\* C3 witness: the scan read a sufficient balance on the destination network
\* itself and a smaller, still sufficient one elsewhere; the bridge was
\* invoked from the other network.
C3_Witness ==
  \E i \in DOMAIN inv :
    LET r == inv[i] IN
      /\ r.pc = "bridge.send"
      /\ TxsOfKind(i, "sendFrom") # {}
      /\ \E k \in DOMAIN r.allBalances :
           /\ r.allBalances[k].chain = r.paymentRequest.network
           /\ r.allBalances[k].balance > r.sourceChain.balance

\* C5: when the target balance is below the required amount, the scan has
\* returned and its result holds no network other than the destination with a balance >= the
\* required amount (an empty scan result included), executePayment has
\* returned success = false with the message that names the required amount
\* and says no chain had sufficient funds, and it has submitted no approve,
\* no bridge send and no transfer, and the watcher has not polled.
C5_InsufficientEverywhere ==
  \A i \in DOMAIN inv :
    LET r == inv[i] IN
      ( /\ Called(r, "scanAllChains")
        /\ r.pc # "scanning"
        /\ r.caught = <<>>
        /\ ~Called(r, "waitForBridgeCompletion")
        /\ \A k \in DOMAIN r.allBalances :
             \/ r.allBalances[k].chain = r.paymentRequest.network
             \/ r.allBalances[k].balance < r.requiredAmount ) =>
          /\ r.targetBalance.balance < r.requiredAmount
          /\ r.pc = "done"
          /\ r.result = Failed(InsufficientMessage(r.paymentRequest.maxAmountRequired))
          /\ \A h \in 1..Len(txs) : txs[h].inv # i
          /\ r.attempts = 0 /\ r.verified = "none"
          /\ ~Called(r, "bridgeAssets") /\ ~Called(r, "sendPayment")

\* C5 witness: the scan read a sufficient balance on the destination network
\* only, and a positive but insufficient one elsewhere; executePayment
\* returned the insufficient-balance failure.
C5_Witness ==
  \E i \in DOMAIN inv :
    LET r == inv[i] IN
      /\ r.pc = "done"
      /\ ~r.result.success
      /\ Len(r.allBalances) = 2
      /\ \E k \in DOMAIN r.allBalances :
           /\ r.allBalances[k].chain = r.paymentRequest.network
           /\ r.allBalances[k].balance >= r.requiredAmount
      /\ r.viableChains = <<>>

\* C5 witness for the empty scan result.
C5_WitnessEmptyScan ==
  \E i \in DOMAIN inv :
    /\ inv[i].pc = "done"
    /\ Called(inv[i], "scanAllChains")
    /\ inv[i].scanChains = <<>>

\* The positions of executePayment inside waitForBridgeCompletion.
WatcherPcs == {"wait.decimals", "wait.balance", "wait.sleep"}

\* C6: waitForBridgeCompletion has returned true only if a balance query it
\* issued itself, on the destination network, answered a balance >= the
\* required amount; while the bridge send has succeeded and no such answer
\* has come, it has not returned true.
C6_VerifiedOnlyOnMeasuredBalance ==
  \A i \in DOMAIN inv :
    LET r == inv[i] IN
      /\ r.verified = "true" =>
           /\ r.attempts >= 1
           /\ r.balance.chain = r.paymentRequest.network
           /\ r.balance.tokenAddress = r.paymentRequest.asset
           /\ r.balance.balance >= r.requiredAmount
      /\ (r.bridgeResult.success /\ r.balance.balance < r.requiredAmount) =>
           r.verified # "true"

\* C6 witness: the second poll read exactly the required amount, and the
\* watcher returned true.
C6_Witness ==
  \E i \in DOMAIN inv :
    /\ inv[i].verified = "true"
    /\ inv[i].attempts = 2
    /\ inv[i].balance.balance = inv[i].requiredAmount
    /\ inv[i].bridgeResult.success

\* C7: when the approve has failed, executePayment has returned
\* success = false at once: no bridge send and no transfer was submitted,
\* and the watcher was not started and issued no poll.
C7_ApproveFailureShortCircuits ==
  \A i \in DOMAIN inv :
    LET r == inv[i] IN
      (\E h \in TxsOfKind(i, "approve") : txs[h].status = "failed") =>
        /\ r.pc = "done"
        /\ ~r.result.success
        /\ ~r.bridgeResult.success
        /\ TxsOfKind(i, "sendFrom") = {}
        /\ TxsOfKind(i, "transfer") = {}
        /\ ~Called(r, "waitForBridgeCompletion")
        /\ ~Called(r, "sendPayment")
        /\ r.attempts = 0 /\ r.verified = "none"

\* C7 witness: the approve was submitted and failed, and executePayment
\* returned the bridge failure.
C7_Witness ==
  \E i \in DOMAIN inv :
    /\ inv[i].pc = "done"
    /\ \E h \in TxsOfKind(i, "approve") : txs[h].status = "failed"
    /\ inv[i].result = Failed(BridgeFailedMessage(PlainMessage("approveERC20")))

\* C8: the bridging path end to end. Once an invocation whose target balance
\* was below the required amount R has bridged, a poll has read a balance
\* >= R and no transaction of the invocation has failed or is pending, it has
\* submitted exactly an approve, a bridge send and a transfer, in that order:
\* the approve and the send on one source network other than the
\* destination, to that network's endpoint, for amount R, the send naming the
\* destination's chain id; the transfer of amount R of the token to the payee
\* on the destination; and it has returned success = true with the
\* transfer's hash. On the way the approve is on the selected source, a poll
\* is issued only after the bridge send succeeded, and the transfer is
\* submitted only after a poll read >= R.
C8_BridgingPathEndToEnd ==
  \A i \in DOMAIN inv :
    LET r   == inv[i]
        req == r.paymentRequest
    IN /\ ( /\ r.pc = "done"
            /\ Called(r, "bridgeAssets")
            /\ r.balance.balance >= r.requiredAmount
            /\ \A h \in 1..Len(txs) : txs[h].inv = i => txs[h].status = "ok" ) =>
              /\ r.targetBalance.balance < r.requiredAmount
              /\ \E a, b, t \in 1..Len(txs) :
                   /\ a < b /\ b < t
                   /\ {h \in 1..Len(txs) : txs[h].inv = i} = {a, b, t}
                   /\ txs[a].network # req.network
                   /\ txs[a] = [ApproveTx(i, config.walletAddress,
                                          lzEndpointOf(txs[a].network), req.asset,
                                          r.requiredAmount, txs[a].network)
                                  EXCEPT !.status = "ok"]
                   /\ txs[b] = [BridgeTx(i, config.walletAddress,
                                         lzEndpointOf(txs[a].network),
                                         getLayerZeroChainId(req.network),
                                         r.requiredAmount, txs[a].network)
                                  EXCEPT !.status = "ok"]
                   /\ txs[t] = [TransferTx(i, config.walletAddress, req.payTo,
                                           req.asset, r.requiredAmount, req.network)
                                  EXCEPT !.status = "ok"]
                   /\ r.result = Succeeded(t)
              /\ r.attempts >= 1 /\ r.verified = "true"
       /\ (Called(r, "bridgeAssets") /\ ~Called(r, "waitForBridgeCompletion")) =>
            \A h \in TxsOfKind(i, "approve") : txs[h].network = r.sourceChain.chain
       /\ r.attempts >= 1 =>
            \E h \in TxsOfKind(i, "sendFrom") : txs[h].status = "ok"
       /\ (Called(r, "bridgeAssets") /\ TxsOfKind(i, "transfer") # {}) =>
            r.verified = "true" /\ r.balance.balance >= r.requiredAmount

\* C8 witness: target balance 0, a source found and bridged from, the second
\* poll read exactly the required amount, the transfer was accepted and
\* executePayment returned success.
C8_Witness ==
  \E i \in DOMAIN inv :
    /\ inv[i].pc = "done"
    /\ inv[i].targetBalance.balance = 0
    /\ inv[i].attempts = 2
    /\ inv[i].balance.balance = inv[i].requiredAmount
    /\ inv[i].result.success
    /\ Len(txs) = 3

\* C9: a started watcher eventually returns; if no poll reads a balance >=
\* the required amount it returns false. It returns false only when the time
\* elapsed since the loop started has reached the maximum wait; it starts a
\* poll only while the elapsed time is below the maximum wait; and it leaves
\* the loop only by returning true on a poll that read enough, or false.
C9_TimeoutOnlyAtDeadline ==
  /\ \A i \in Invocations :
       (inv[i].pc \in WatcherPcs) ~>
         \/ inv[i].verified = "false"
         \/ inv[i].verified = "true" /\ inv[i].balance.balance >= inv[i].requiredAmount
  /\ [][ \A i \in DOMAIN inv :
          LET r == inv[i]
              q == inv'[i]
          IN /\ (r.verified = "none" /\ q.verified = "false") =>
                  /\ now' - q.startTime >= q.maxWaitMs
                  /\ q.maxWaitMs = config.maxBridgeWaitTime * MsPerSecond
                  /\ q.attempts = r.attempts
             /\ q.attempts > r.attempts =>
                  /\ now' - q.startTime < q.maxWaitMs
                  /\ q.pc = "wait.decimals"
                  /\ q.verified = "none"
             /\ (r.pc = "wait.sleep" /\ now' - r.startTime < r.maxWaitMs) =>
                  q.verified = "none" /\ q.attempts = r.attempts + 1
             /\ ((r.pc \in WatcherPcs \/ r.pc = "bridge.send") /\ q.pc \notin WatcherPcs
                   /\ q.pc # "bridge.send" /\ q.bridgeResult.success) =>
                  \/ q.verified = "false"
                  \/ q.verified = "true" /\ q.balance.balance >= q.requiredAmount
      ]_vars

\* C9 witness: two polls read too little, and the watcher returned false
\* with the elapsed time exactly at the maximum wait.
C9_Witness ==
  \E i \in DOMAIN inv :
    /\ inv[i].verified = "false"
    /\ inv[i].attempts = 2
    /\ now - inv[i].startTime = inv[i].maxWaitMs

\* C10: a poll that reads a balance >= the required amount makes the watcher
\* return true in that same step: the transfer is submitted at once, with no
\* sleep and no further poll; and once it has returned true the attempt count
\* never changes again.
C10_EarlySuccess ==
  [][ \A i \in DOMAIN inv :
        LET r == inv[i]
            q == inv'[i]
        IN /\ (r.pc = "wait.balance" /\ q.balance.balance >= r.requiredAmount) =>
                /\ q.verified = "true"
                /\ q.pc = "retryPaying"
                /\ q.attempts = r.attempts
                /\ TxsOfKind(i, "transfer")' # {}
           /\ (r.pc = "wait.balance" /\ q.verified = "true") =>
                q.sleepMs = r.sleepMs
           /\ r.verified = "true" =>
                /\ q.verified = "true"
                /\ q.attempts = r.attempts
                /\ q.pc \notin WatcherPcs
    ]_vars

\* C10 witness: the first poll read too little, the second read enough, and
\* the watcher returned true after two attempts.
C10_Witness ==
  \E i \in DOMAIN inv :
    /\ inv[i].verified = "true"
    /\ inv[i].attempts = 2
    /\ inv[i].pc = "retryPaying"
    /\ inv[i].sleepMs > 0

ScanReturns(i) ==
  inv[i].pc = "scanning" /\ inv'[i].pc # "scanning" /\ inv'[i].caught = <<>>

\* The step of invocation i in which scanAllChains throws: Promise.all has
\* rejected, and executePayment's catch has the error.
ScanThrows(i) == inv[i].pc = "scanning" /\ inv'[i].caught # <<>>

\* C12: a network's failing balance query does not make scanAllChains fail:
\* no step of the scan throws to executePayment. The failure leaves the scan
\* running and the other networks' queries untouched; and when the scan
\* returns, the result holds the entry of every network whose query
\* succeeded with a positive balance, in scan order and nothing else, and no
\* entry of a network whose query failed.
C12_ScannerResilience ==
  [][ \A i \in DOMAIN inv :
        LET r == inv[i]
            q == inv'[i]
            answered == { k \in 1..Len(r.scan) :
                            ~r.scan[k].caught /\ r.scan[k].entry.balance > 0 }
        IN /\ ~ScanThrows(i)
           /\ q.scanErrors > r.scanErrors =>
                /\ q.scanErrors = r.scanErrors + 1
                /\ q.pc = "scanning"
                /\ q.caught = r.caught
                /\ q.result = NoResult
                /\ \E k \in 1..Len(r.scan) :
                     /\ q.scan[k].caught /\ q.scan[k].st = "done"
                     /\ \A j \in 1..Len(r.scan) : j # k => q.scan[j] = r.scan[j]
           /\ ScanReturns(i) =>
                /\ q.caught = <<>>
                /\ Len(q.allBalances) = Cardinality(answered)
                /\ \A k \in answered :
                     \E j \in 1..Len(q.allBalances) : q.allBalances[j] = r.scan[k].entry
                /\ \A j1, j2 \in 1..Len(q.allBalances) :
                     j1 < j2 =>
                       \E k1, k2 \in answered :
                         /\ k1 < k2
                         /\ q.allBalances[j1] = r.scan[k1].entry
                         /\ q.allBalances[j2] = r.scan[k2].entry
                /\ \A k \in 1..Len(r.scan) :
                     r.scan[k].caught =>
                       \A j \in 1..Len(q.allBalances) :
                         q.allBalances[j].chain # r.scanChains[k]
                /\ Cardinality({ k \in 1..Len(r.scan) : r.scan[k].caught }) = r.scanErrors
    ]_vars

\* C12 witness: the scan has returned; one network's query failed and
\* another network's entry is in the result.
C12_Witness ==
  \E i \in DOMAIN inv :
    /\ inv[i].pc \notin {"checkTarget.decimals", "checkTarget.balance", "scanning"}
    /\ inv[i].scanErrors = 1
    /\ Len(inv[i].scanChains) = 2
    /\ Len(inv[i].allBalances) = 1

\* C12 witness: the query of every configured network failed, and the scan
\* returned an empty result.
C12_WitnessEveryQueryFails ==
  \E i \in DOMAIN inv :
    /\ inv[i].pc = "done"
    /\ inv[i].scanErrors = 2
    /\ Len(inv[i].scanChains) = 2
    /\ inv[i].allBalances = <<>>
    /\ inv[i].caught = <<>>

\* C13: every entry of the scan's result has a balance above zero and is on
\* a configured network, each network at most once; and a network that
\* read zero or whose query failed has no entry in the result.
C13_ScanResultPositive ==
  [][ \A i \in DOMAIN inv :
        LET r == inv[i]
            q == inv'[i]
        IN /\ \A j \in 1..Len(q.allBalances) :
                /\ q.allBalances[j].balance > 0
                /\ \E k \in 1..Len(config.supportedChains) :
                     config.supportedChains[k] = q.allBalances[j].chain
                /\ \A j2 \in 1..Len(q.allBalances) :
                     q.allBalances[j2].chain = q.allBalances[j].chain => j2 = j
           /\ ScanReturns(i) =>
                \A k \in 1..Len(r.scan) :
                  (r.scan[k].entry.balance = 0 \/ r.scan[k].caught) =>
                    \A j \in 1..Len(q.allBalances) :
                      q.allBalances[j].chain # r.scanChains[k]
    ]_vars

\* C13 witness: the scan has returned a result of one entry; of the two
\* configured networks, the other answered and was left out.
C13_Witness ==
  \E i \in DOMAIN inv :
    /\ inv[i].pc \notin {"checkTarget.decimals", "checkTarget.balance", "scanning"}
    /\ inv[i].scanErrors = 0
    /\ Len(inv[i].scanChains) = 2
    /\ Len(inv[i].allBalances) = 1
    /\ inv[i].allBalances[1].balance > 0

\* The transactions of kind op that invocation i submitted and that failed.
FailedTxs(i, op) == { h \in TxsOfKind(i, op) : txs[h].status = "failed" }

\* C14: when bridgeAssets has answered failure, executePayment has returned
\* success = false and its error is 'Bridge failed: ' followed by the error
\* bridgeAssets answered. bridgeAssets answers failure in the three cases,
\* and in no other: the source has no endpoint (error 'LayerZero not
\* supported on <source>'), the approve failed, or the bridge send failed
\* (error: the thrown Error's message, or 'Bridge failed' when the thrown
\* value is no Error).
C14_BridgeFailureWrapped ==
  \A i \in DOMAIN inv :
    LET r == inv[i]
        executorError == r.bridgeResult.error
        unsupported == /\ Called(r, "bridgeAssets")
                       /\ ~Called(r, "waitForBridgeCompletion")
                       /\ lzEndpointOf(r.sourceChain.chain) = ""
    IN /\ executorError.defined =>
            /\ ~r.bridgeResult.success
            /\ r.pc = "done"
            /\ ~r.result.success
            /\ r.result.transactionHash = 0
            /\ r.result.error.defined
            /\ r.result.error.prefix = <<"Bridge failed: ">> \o executorError.prefix
            /\ r.result.error.str = executorError.str
            /\ r.result.error.num = executorError.num
            /\ r.result.error.amt = executorError.amt
            /\ \/ unsupported
               \/ FailedTxs(i, "approve") # {}
               \/ FailedTxs(i, "sendFrom") # {}
       /\ unsupported =>
            executorError = UnsupportedMessage(r.sourceChain.chain)
       /\ FailedTxs(i, "approve") # {} =>
            executorError \in {PlainMessage("approveERC20"), PlainMessage("Bridge failed")}
       /\ FailedTxs(i, "sendFrom") # {} =>
            executorError \in {PlainMessage("sendTransaction"), PlainMessage("Bridge failed")}

\* C14 witness: the approve was accepted, the bridge send threw an Error, and
\* executePayment returned 'Bridge failed: ' followed by its message.
C14_Witness ==
  \E i \in DOMAIN inv :
    /\ inv[i].pc = "done"
    /\ FailedTxs(i, "sendFrom") # {}
    /\ inv[i].result.error.prefix = <<"Bridge failed: ">>
    /\ inv[i].result.error.str = "sendTransaction"

\* C14 witness: the source has no endpoint.
C14_WitnessUnsupported ==
  \E i \in DOMAIN inv :
    /\ inv[i].pc = "done"
    /\ inv[i].sourceChain.chain = "solana"
    /\ inv[i].result.error.prefix = <<"Bridge failed: ", "LayerZero not supported on ">>
    /\ inv[i].result.error.str = "solana"

\* C15: when the watcher has returned false, executePayment has returned
\* success = false with the timeout message, which is no 'Bridge failed: '
\* message, and the duration the message names is the maximum wait the
\* watcher of this invocation ran with.
C15_TimeoutNamesWatchersWait ==
  \A i \in DOMAIN inv :
    LET r == inv[i] IN
      r.verified = "false" =>
        /\ r.pc = "done"
        /\ ~r.result.success
        /\ r.result.error.defined
        /\ r.result.error.prefix = <<"Bridge verification timeout after {}s">>
        /\ r.result.error.prefix[1] # "Bridge failed: "
        /\ r.result.error.num * MsPerSecond = r.maxWaitMs

\* C15, without the duration: when the watcher has returned false,
\* executePayment has returned success = false with the timeout message,
\* which is no 'Bridge failed: ' message and names the maximum wait
\* configured at the moment executePayment returns.
C15_TimeoutOutcomeDistinct ==
  \A i \in DOMAIN inv :
    LET r == inv[i] IN
      r.verified = "false" =>
        /\ r.pc = "done"
        /\ ~r.result.success
        /\ r.result.error.defined
        /\ r.result.error.prefix = <<"Bridge verification timeout after {}s">>
        /\ r.result.error.prefix[1] # "Bridge failed: "
        /\ r.result.error.num \in 0..MaxWaitSeconds

\* C15: the watcher ran with one maximum wait and timed out, and the
\* message names another.
C15_WitnessOtherDuration ==
  \E i \in DOMAIN inv :
    /\ inv[i].verified = "false"
    /\ inv[i].pc = "done"
    /\ inv[i].attempts >= 1
    /\ inv[i].result.error.num * MsPerSecond # inv[i].maxWaitMs

\* C16: when the selected source has no endpoint in LAYERZERO_ENDPOINTS,
\* bridgeAssets has answered success = false with the error 'LayerZero not
\* supported on <source>' and the invocation has submitted no transaction:
\* no approve, no bridge send. Every approve and bridge send submitted is on
\* a network that has an endpoint, and addressed to it.
C16_UnsupportedSource ==
  \A i \in DOMAIN inv :
    LET r == inv[i] IN
      /\ ( /\ Called(r, "bridgeAssets")
           /\ r.sourceChain # NoBalance
           /\ r.sourceChain.chain \notin DOMAIN LAYERZERO_ENDPOINTS ) =>
             /\ r.bridgeResult =
                  Failed([defined |-> TRUE, prefix |-> <<"LayerZero not supported on ">>,
                          str |-> r.sourceChain.chain, num |-> -1, amt |-> NoAmount])
             /\ { h \in 1..Len(txs) : txs[h].inv = i } = {}
             /\ ~Called(r, "waitForBridgeCompletion")
             /\ r.attempts = 0
             /\ r.pc = "done"
      /\ \A h \in TxsOfKind(i, "approve") \cup TxsOfKind(i, "sendFrom") :
           /\ txs[h].network \in DOMAIN LAYERZERO_ENDPOINTS
           /\ txs[h].to = LAYERZERO_ENDPOINTS[txs[h].network]

\* C16 witness: the scan found enough on a network that has no endpoint;
\* bridgeAssets answered 'not supported' and nothing was submitted.
C16_Witness ==
  \E i \in DOMAIN inv :
    /\ Called(inv[i], "bridgeAssets")
    /\ inv[i].sourceChain.chain = "solana"
    /\ inv[i].bridgeResult.error.prefix = <<"LayerZero not supported on ">>
    /\ ~inv[i].bridgeResult.success
    /\ txs = <<>>

\* C16: the scan found enough on 'constructor', a name the endpoint table
\* does not list but inherits. The guard let it through, the encoding of the
\* approve rejected the inherited member, and executePayment returned that
\* error and not 'LayerZero not supported on constructor'; nothing was
\* submitted.
C16_WitnessInvalidAddress ==
  \E i \in DOMAIN inv :
    /\ inv[i].pc = "done"
    /\ Called(inv[i], "bridgeAssets")
    /\ inv[i].sourceChain.chain = "constructor"
    /\ "constructor" \notin DOMAIN LAYERZERO_ENDPOINTS
    /\ txs = <<>>
    /\ inv[i].bridgeResult =
         Failed(PlainMessage(
           "Address \"function Object() { [native code] }\" is invalid."))
    /\ inv[i].result = Failed(BridgeFailedMessage(inv[i].bridgeResult.error))

\* C17: bridgeAssets submits an approve first: on the selected source, of
\* the token, for exactly the required amount, with the source's endpoint as
\* spender, and with no transaction of the invocation before it. It submits
\* the bridge send only in the step in which that approve, pending until
\* then, succeeds: to the same endpoint, on the same network, for the same
\* amount. Every bridge send has its accepted approve before it, and when
\* the approve has failed there is no bridge send and bridgeAssets has
\* answered success = false.
C17_ApproveThenSend ==
  /\ [][ \A i \in DOMAIN inv :
           LET r == inv[i]
               q == inv'[i]
               approves == TxsOfKind(i, "approve")
               sends    == TxsOfKind(i, "sendFrom")
           IN /\ approves' # approves =>
                   /\ { h \in 1..Len(txs) : txs[h].inv = i } = {}
                   /\ \E a \in approves' :
                        /\ approves' = {a}
                        /\ txs'[a] = [ inv |-> i, op |-> "approve",
                                       network |-> q.sourceChain.chain,
                                       from |-> config.walletAddress,
                                       to |-> LAYERZERO_ENDPOINTS[q.sourceChain.chain],
                                       token |-> q.paymentRequest.asset,
                                       amount |-> q.requiredAmount,
                                       dstChainId |-> -1, status |-> "pending" ]
              /\ sends' # sends =>
                   /\ sends = {}
                   /\ \E a \in approves, b \in sends' :
                        /\ approves = {a} /\ sends' = {b} /\ a < b
                        /\ txs[a].status = "pending" /\ txs'[a].status = "ok"
                        /\ txs'[b].status = "pending"
                        /\ txs'[b].network = txs[a].network
                        /\ txs'[b].to = txs[a].to
                        /\ txs'[b].amount = txs[a].amount
                        /\ txs'[b].from = txs[a].from
       ]_vars
  /\ [] \A i \in Invocations :
          /\ \A b \in TxsOfKind(i, "sendFrom") :
               \E a \in TxsOfKind(i, "approve") : a < b /\ txs[a].status = "ok"
          /\ FailedTxs(i, "approve") # {} =>
               /\ TxsOfKind(i, "sendFrom") = {}
               /\ ~inv[i].bridgeResult.success
               /\ inv[i].bridgeResult.error.defined

\* C17 witness: the approve was accepted and the bridge send, to the same
\* endpoint, is submitted and awaited.
C17_Witness ==
  \E i \in DOMAIN inv :
    /\ inv[i].pc = "bridge.send"
    /\ \E a \in TxsOfKind(i, "approve"), b \in TxsOfKind(i, "sendFrom") :
         /\ a < b
         /\ txs[a].status = "ok" /\ txs[b].status = "pending"
         /\ txs[a].to = txs[b].to
         /\ txs[a].amount = inv[i].requiredAmount

\* C18: when the bridge send has failed after an accepted approve, the
\* invocation has returned a failure outcome and its transactions are that
\* approve, still accepted and for the full amount, and the failed send, and
\* nothing else: no revoking or second approve, no second send, no transfer;
\* and no poll was issued.
C18_ApprovalLeftOutstanding ==
  \A i \in DOMAIN inv :
    LET r == inv[i] IN
      FailedTxs(i, "sendFrom") # {} =>
        /\ r.pc = "done"
        /\ ~r.result.success
        /\ r.result.error.defined
        /\ \E a, b \in 1..Len(txs) :
             /\ a < b
             /\ { h \in 1..Len(txs) : txs[h].inv = i } = {a, b}
             /\ txs[a].op = "approve" /\ txs[a].status = "ok"
             /\ txs[a].amount = r.requiredAmount /\ txs[a].amount > 0
             /\ txs[b].op = "sendFrom" /\ txs[b].status = "failed"
        /\ ~Called(r, "waitForBridgeCompletion")
        /\ ~Called(r, "sendPayment")
        /\ r.attempts = 0

\* C18 witness: the approve was accepted, the bridge send failed, and
\* executePayment returned the failure.
C18_Witness ==
  \E i \in DOMAIN inv :
    /\ inv[i].pc = "done"
    /\ ~inv[i].result.success
    /\ Len(txs) = 2
    /\ txs[1].op = "approve" /\ txs[1].status = "ok"
    /\ txs[2].op = "sendFrom" /\ txs[2].status = "failed"

\* C19: an invocation submits the approve, the bridge send and the payment
\* transfer at most once each, and a transaction that has failed is the
\* invocation's last: executePayment has returned a failure outcome and
\* nothing was submitted after it.
C19_NoRetry ==
  \A i \in DOMAIN inv :
    LET mine == { h \in 1..Len(txs) : txs[h].inv = i } IN
      /\ Cardinality(TxsOfKind(i, "approve")) <= 1
      /\ Cardinality(TxsOfKind(i, "sendFrom")) <= 1
      /\ Cardinality(TxsOfKind(i, "transfer")) <= 1
      /\ mine = TxsOfKind(i, "approve") \cup TxsOfKind(i, "sendFrom")
                  \cup TxsOfKind(i, "transfer")
      /\ \A h \in mine :
           txs[h].status = "failed" =>
             /\ \A h2 \in mine : h2 <= h
             /\ inv[i].pc = "done"
             /\ ~inv[i].result.success
      /\ Cardinality({ h \in mine : txs[h].status = "pending" }) <= 1

\* C19 witness: on the bridging path the payment transfer failed;
\* executePayment returned the failure, with one approve, one bridge send
\* and the one failed transfer submitted.
C19_Witness ==
  \E i \in DOMAIN inv :
    /\ inv[i].pc = "done"
    /\ ~inv[i].result.success
    /\ Len(txs) = 3
    /\ txs[3].op = "transfer" /\ txs[3].status = "failed"
    /\ inv[i].attempts >= 1

\* C20: one invocation is one sequential flow. The scan returns, and the
\* route is chosen, only when every query of the scan has settled; the
\* approve is submitted in that step and not before. A poll starts only
\* when no watcher query is outstanding, and the first one only in the step
\* where the bridge send succeeds, the approve having succeeded before. The
\* transfer is submitted only when no query or transaction is outstanding,
\* on the bridging path in the step where a poll has read enough. One
\* source is bridged from: the approve and the bridge send are one each
\* and on the same network; and at most one transaction is pending.
C20_SequentialFlow ==
  /\ [][ \A i \in DOMAIN inv :
           LET r == inv[i]
               q == inv'[i]
           IN /\ ScanReturns(i) =>
                   /\ \A k \in 1..Len(r.scan) : r.scan[k].st = "done"
                   /\ r.sourceChain = NoBalance /\ r.viableChains = <<>>
                   /\ { h \in 1..Len(txs) : txs[h].inv = i } = {}
              /\ TxsOfKind(i, "approve")' # TxsOfKind(i, "approve") => ScanReturns(i)
              /\ q.attempts > r.attempts =>
                   /\ r.pc \in {"bridge.send", "wait.sleep"}
                   /\ q.attempts = r.attempts + 1
                   /\ \A h \in 1..Len(txs') : txs'[h].inv = i => txs'[h].status = "ok"
                   /\ r.attempts = 0 <=> r.pc = "bridge.send"
              /\ TxsOfKind(i, "transfer")' # TxsOfKind(i, "transfer") =>
                   /\ r.pc \in {"checkTarget.balance", "wait.balance"}
                   /\ \A h \in 1..Len(txs) : txs[h].inv = i => txs[h].status = "ok"
                   /\ r.pc = "wait.balance" =>
                        q.verified = "true" /\ q.balance.balance >= q.requiredAmount
                   /\ q.pc \notin WatcherPcs
       ]_vars
  /\ [] \A i \in Invocations :
          /\ Cardinality(TxsOfKind(i, "approve")) <= 1
          /\ Cardinality(TxsOfKind(i, "sendFrom")) <= 1
          /\ \A a \in TxsOfKind(i, "approve"), b \in TxsOfKind(i, "sendFrom") :
               txs[a].network = txs[b].network /\ a < b
          /\ Cardinality({ h \in 1..Len(txs) :
                             txs[h].inv = i /\ txs[h].status = "pending" }) <= 1
          /\ inv[i].pc \in WatcherPcs =>
               \A h \in 1..Len(txs) : txs[h].inv = i => txs[h].status = "ok"
          /\ inv[i].pc = "scanning" => { h \in 1..Len(txs) : txs[h].inv = i } = {}

\* C20 witness: the whole flow has run: a scan over two networks, the
\* approve and the bridge send, two polls or more and the transfer, accepted.
C20_Witness ==
  \E i \in DOMAIN inv :
    /\ inv[i].pc = "done"
    /\ Len(inv[i].scanChains) = 2
    /\ inv[i].attempts >= 2
    /\ inv[i].verified = "true"
    /\ Len(txs) = 3
    /\ \A h \in 1..3 : txs[h].status = "ok"

\* C21: every configuration value an invocation uses is the value that was
\* configured when the invocation started: each of its transactions is sent
\* from the wallet configured then, its scan runs over the networks
\* configured then, its watcher runs with the maximum wait configured then
\* and names it in the timeout message, and every sleep lasts the poll
\* interval configured then.
C21_ConfigurationAsAtStart ==
  \A i \in DOMAIN inv :
    LET r == inv[i]
        c == r.startConfig
    IN /\ \A h \in 1..Len(txs) : txs[h].inv = i => txs[h].from = c.walletAddress
       /\ Called(r, "scanAllChains") => r.scanChains = c.supportedChains
       /\ Called(r, "waitForBridgeCompletion") =>
            r.maxWaitMs = c.maxBridgeWaitTime * MsPerSecond
       /\ r.verified = "false" => r.result.error.num = c.maxBridgeWaitTime
       /\ r.pc = "wait.sleep" => r.sleepMs = c.pollInterval

\* C21: an invocation whose approve was sent from the wallet configured at
\* its start and whose payment transfer was sent from another wallet.
C21_WitnessTornWallet ==
  \E i \in DOMAIN inv :
    \E a \in TxsOfKind(i, "approve"), t \in TxsOfKind(i, "transfer") :
      /\ txs[a].from = inv[i].startConfig.walletAddress
      /\ txs[t].from # txs[a].from

\* C22: concurrent invocations are not coordinated. A step of one
\* invocation leaves the other's locals alone; an invocation that reads a
\* sufficient target balance submits its transfer in that step, and one
\* whose approve succeeds submits its bridge send in that step, whatever the
\* other invocation has read, submitted or has pending.
C22_NoCoordination ==
  [][ \A i \in DOMAIN inv :
        LET r == inv[i]
            q == inv'[i]
        IN /\ q # r => \A j \in DOMAIN inv : j # i => inv'[j] = inv[j]
           /\ ( /\ r.pc = "checkTarget.balance"
                /\ q.targetBalance.balance >= q.requiredAmount
                /\ q.requiredAmount > 0 ) =>
                /\ TxsOfKind(i, "transfer")' # {}
                /\ q.pc = "paying"
           /\ ( /\ r.pc = "bridge.approve"
                /\ \E a \in TxsOfKind(i, "approve") : txs'[a].status = "ok" ) =>
                /\ TxsOfKind(i, "sendFrom")' # {}
                /\ q.pc = "bridge.send"
    ]_vars

\* C22 witness: both invocations read the same target balance, which covers
\* one required amount but not both, and both have submitted their payment
\* transfer; neither transfer has settled.
C22_WitnessDoublePay ==
  \E i, j \in DOMAIN inv :
    /\ i # j
    /\ inv[i].targetBalance.balance = inv[j].targetBalance.balance
    /\ inv[i].targetBalance.balance >= inv[i].requiredAmount
    /\ inv[j].targetBalance.balance >= inv[j].requiredAmount
    /\ inv[i].targetBalance.balance < inv[i].requiredAmount + inv[j].requiredAmount
    /\ \E hi \in TxsOfKind(i, "transfer"), hj \in TxsOfKind(j, "transfer") :
         txs[hi].status = "pending" /\ txs[hj].status = "pending"

\* C22 witness: both invocations found the target insufficient, chose the
\* same source on the same reading of its balance, which covers one
\* required amount but not both, and both have submitted a bridge send.
C22_WitnessDoubleBridge ==
  \E i, j \in DOMAIN inv :
    /\ i # j
    /\ inv[i].sourceChain = inv[j].sourceChain
    /\ inv[i].sourceChain.balance < inv[i].requiredAmount + inv[j].requiredAmount
    /\ \E hi \in TxsOfKind(i, "sendFrom"), hj \in TxsOfKind(j, "sendFrom") :
         txs[hi].status = "pending" /\ txs[hj].status = "pending"

\* The amount string a has the integer value n at d decimals: the magnitude
\* of n is the magnitude of a scaled by 10^d, a fraction longer than d digits
\* rounded half up, and n has the sign of a.
IsAmountAt(n, a, d) ==
  LET negative == a.mant < 0
      mant == IF negative THEN -a.mant ELSE a.mant
      m    == IF negative THEN -n ELSE n
  IN IF a.exp <= d
     THEN m = mant * Pow10(d - a.exp)
     ELSE LET unit == Pow10(a.exp - d)
          IN /\ 2 * m * unit <= 2 * mant + unit
             /\ 2 * mant + unit < 2 * (m + 1) * unit

\* C23: requiredAmount is computed once, from the request's amount string at
\* the decimals checkBalance found for the token on the target network (the
\* token's decimals there, or the default when the metadata read failed), and
\* never changes afterwards. That one integer is what every source network's
\* raw balance is compared with, whatever the decimals of the token on the
\* source network: the viable networks are exactly the other networks of the
\* scan result whose raw balance is at least requiredAmount. It is also the
\* amount of every approve and every bridge send.
C23_OneRequiredAmount ==
  /\ [][\A i \in DOMAIN inv :
          LET r == inv[i]
              q == inv'[i]
          IN /\ r.requiredAmount # -1 => q.requiredAmount = r.requiredAmount
             /\ ScanReturns(i) =>
                  /\ \A k \in DOMAIN q.allBalances :
                       (/\ q.allBalances[k].chain # q.paymentRequest.network
                        /\ q.allBalances[k].balance >= q.requiredAmount)
                       <=> (\E v \in DOMAIN q.viableChains :
                              q.viableChains[v] = q.allBalances[k])
                  /\ \A v \in DOMAIN q.viableChains :
                       \E k \in DOMAIN q.allBalances :
                         q.viableChains[v] = q.allBalances[k]]_vars
  /\ [](\A i \in DOMAIN inv :
          LET r == inv[i]
          IN /\ r.requiredAmount # -1 =>
                  /\ r.targetBalance # NoBalance
                  /\ r.targetBalance.chain = r.paymentRequest.network
                  /\ r.targetBalance.decimals \in
                       {TokenDecimals(r.paymentRequest.network), DefaultDecimals}
                  /\ IsAmountAt(r.requiredAmount, r.paymentRequest.maxAmountRequired,
                                r.targetBalance.decimals)
             /\ r.sourceChain # NoBalance =>
                  r.sourceChain.balance >= r.requiredAmount
             /\ \A h \in TxsOfKind(i, "approve") \cup TxsOfKind(i, "sendFrom") :
                  /\ r.requiredAmount # -1
                  /\ txs[h].amount = r.requiredAmount)

\* C23 witness: the token has 17 decimals on the target network and 18 on
\* the source; the request's amount is 2 units at 17 decimals (it would be 20
\* at the source's 18); the source holds 2 raw units, is chosen, and the
\* approve and the bridge send are for 2.
C23_WitnessDecimalsDiffer ==
  \E i \in DOMAIN inv :
    LET r == inv[i]
    IN /\ r.requiredAmount = 2
       /\ r.targetBalance # NoBalance
       /\ r.targetBalance.decimals = 17
       /\ r.sourceChain # NoBalance
       /\ r.sourceChain.decimals = 18
       /\ r.sourceChain.balance = 2
       /\ \E h \in TxsOfKind(i, "approve") : txs[h].amount = 2
       /\ \E h \in TxsOfKind(i, "sendFrom") : txs[h].amount = 2

\* C24 as claimed: no failure of a balance or metadata read makes
\* executePayment return a failure outcome: no invocation has returned
\* success = false on an error that getERC20Balance threw.
C24_ReadFailureNeverEscalated ==
  \A i \in DOMAIN inv :
    LET r == inv[i]
    IN ~(/\ r.pc = "done"
         /\ ~r.result.success
         /\ r.caught # <<>>
         /\ r.caught[1] \in Thrown("getERC20Balance"))

\* C24, amended: a failed metadata read is never escalated (the default
\* decimals are used and the balance read follows); a failed balance read of
\* the scanner is logged and leaves the scan running, and one of the watcher
\* is logged and followed by the sleep; none of them ends the invocation.
\* The only read whose failure is escalated is the balance read of the
\* initial check of the target network: executePayment's catch receives it
\* and the invocation returns success = false with that error's message (or
\* 'Unknown error'). Nothing that is thrown after the required amount was
\* computed reaches that catch.
C24_OnlyTargetReadEscalated ==
  /\ [][\A i \in DOMAIN inv :
          LET r == inv[i]
              q == inv'[i]
          IN /\ q.scanErrors > r.scanErrors =>
                  q.pc = "scanning" /\ q.result = NoResult /\ q.caught = <<>>
             /\ q.pollErrors > r.pollErrors =>
                  q.pc = "wait.sleep" /\ q.result = NoResult /\ q.caught = <<>>
             /\ r.pc = "checkTarget.decimals" /\ q # r =>
                  q.pc = "checkTarget.balance" /\ q.result = NoResult
             /\ r.pc = "wait.decimals" /\ q # r =>
                  q.pc = "wait.balance" /\ q.result = NoResult
             /\ r.pc = "scanning" =>
                  /\ q.caught = <<>>
                  /\ q.pc = "scanning" =>
                       \A k \in DOMAIN r.scan :
                         r.scan[k].st = "decimals" /\ q.scan[k] # r.scan[k] =>
                           q.scan[k].st = "balance"
             /\ r.pc = "checkTarget.balance" /\ q # r /\ q.targetBalance = NoBalance =>
                  /\ q.pc = "done"
                  /\ q.caught # <<>>
                  /\ q.caught[1] \in Thrown("getERC20Balance")
                  /\ q.result = Failed(PlainMessage(
                                  IF q.caught[1].isError THEN q.caught[1].message
                                  ELSE "Unknown error"))]_vars
  /\ [](\A i \in DOMAIN inv :
          LET r == inv[i]
          IN r.caught # <<>> =>
               /\ r.pc = "done"
               /\ ~r.result.success
               /\ r.called = <<"checkBalance">>
               /\ r.scanErrors = 0
               /\ r.pollErrors = 0
               /\ r.requiredAmount = -1
               /\ r.targetBalance = NoBalance =>
                    r.caught[1] \in Thrown("getERC20Balance")
               /\ r.targetBalance # NoBalance =>
                    r.caught[1] = [isError |-> TRUE, message |-> InvalidDecimalNumber])

\* C24 witness: one network's balance read failed in the scan, a poll of the
\* watcher failed as well, and executePayment has returned success.
C24_WitnessRecoveredReads ==
  \E i \in DOMAIN inv :
    /\ inv[i].scanErrors >= 1
    /\ inv[i].pollErrors >= 1
    /\ inv[i].pc = "done"
    /\ inv[i].result.success
    /\ inv[i].caught = <<>>

\* C25: every payment transfer an invocation submits, on the direct path and
\* on the retry path after bridging alike, moves exactly the required amount
\* the invocation computed from the request at its start, of the requested
\* token, from the wallet configured when it is submitted to the request's
\* payee, on the request's destination network; and the step that submits
\* it adds that one transaction and nothing else.
C25_TransferAsRequested ==
  /\ [][\A i \in DOMAIN inv :
          LET r == inv[i]
              q == inv'[i]
          IN Cardinality(TxsOfKind(i, "transfer")') > Cardinality(TxsOfKind(i, "transfer")) =>
               /\ Len(txs') = Len(txs) + 1
               /\ txs'[Len(txs')] =
                    [ inv |-> i, op |-> "transfer",
                      network |-> r.paymentRequest.network,
                      from |-> config.walletAddress,
                      to |-> r.paymentRequest.payTo,
                      token |-> r.paymentRequest.asset,
                      amount |-> q.requiredAmount,
                      dstChainId |-> -1, status |-> "pending" ]
               /\ r.requiredAmount # -1 => q.requiredAmount = r.requiredAmount]_vars
  /\ [](\A i \in DOMAIN inv :
          \A h \in TxsOfKind(i, "transfer") :
            LET r == inv[i]
            IN /\ r.requiredAmount # -1
               /\ IsAmountAt(r.requiredAmount, r.paymentRequest.maxAmountRequired,
                             r.targetBalance.decimals)
               /\ txs[h].amount = r.requiredAmount
               /\ txs[h].token = r.paymentRequest.asset
               /\ txs[h].to = r.paymentRequest.payTo
               /\ txs[h].network = r.paymentRequest.network)

\* C25 witness: the retry path. The target held less than the required
\* amount, the bridge went through and was verified, and the transfer
\* submitted afterwards is for the required amount, to the payee, on the
\* target network.
C25_WitnessRetryTransfer ==
  \E i \in DOMAIN inv :
    LET r == inv[i]
    IN /\ r.targetBalance # NoBalance
       /\ r.targetBalance.balance < r.requiredAmount
       /\ r.verified = "true"
       /\ \E h \in TxsOfKind(i, "transfer") :
            /\ txs[h].amount = r.requiredAmount
            /\ txs[h].to = Payee
            /\ txs[h].from = Wallet
            /\ txs[h].network = r.paymentRequest.network
            /\ \E g \in TxsOfKind(i, "sendFrom") : g < h

\* C25 witness: the direct path. The target held enough, and the transfer
\* was submitted without a scan.
C25_WitnessDirectTransfer ==
  \E i \in DOMAIN inv :
    LET r == inv[i]
    IN /\ r.targetBalance # NoBalance
       /\ r.targetBalance.balance >= r.requiredAmount
       /\ ~Called(r, "scanAllChains")
       /\ \E h \in TxsOfKind(i, "transfer") :
            txs[h].amount = r.requiredAmount /\ txs[h].to = Payee

\* The place of a network in the list the scan went over.
ScanPosition(r, chain) ==
  CHOOSE k \in DOMAIN r.scanChains : r.scanChains[k] = chain

\* C26: among the viable candidates that share the maximum balance, the
\* selected source is the one that comes first in scan order, which is the
\* order of the configured supported networks: no viable candidate with the
\* source's balance stands before the source in that list, and no viable
\* candidate has more.
C26_TieGoesToFirstScanned ==
  \A i \in DOMAIN inv :
    LET r == inv[i]
    IN r.sourceChain # NoBalance =>
         /\ r.scanChains = config.supportedChains
         /\ \E v \in DOMAIN r.viableChains : r.viableChains[v] = r.sourceChain
         /\ \A v \in DOMAIN r.viableChains :
              /\ r.viableChains[v].balance <= r.sourceChain.balance
              /\ r.viableChains[v].balance = r.sourceChain.balance =>
                   ScanPosition(r, r.sourceChain.chain)
                     <= ScanPosition(r, r.viableChains[v].chain)

\* C26 witness: three viable candidates; the second and the third in scan
\* order share the maximum balance, the first holds less; the second is the
\* source.
C26_WitnessTie ==
  \E i \in DOMAIN inv :
    LET r == inv[i]
        inScanOrder == viableChainsOf(r.allBalances, r.paymentRequest.network,
                                      r.requiredAmount)
    IN /\ Len(inScanOrder) = 3
       /\ inScanOrder[1].balance < inScanOrder[2].balance
       /\ inScanOrder[2].balance = inScanOrder[3].balance
       /\ r.sourceChain = inScanOrder[2]
       /\ r.viableChains = <<inScanOrder[2], inScanOrder[3], inScanOrder[1]>>
       /\ ScanPosition(r, inScanOrder[2].chain)
            < ScanPosition(r, inScanOrder[3].chain)
       /\ r.pc = "bridge.approve"

\* C27: scanAllChains issues the query of every configured network before
\* it awaits any: when the scan starts, every network of the configured list
\* has its query in flight and none has settled. No query ends the scan for
\* the others: the scan ends only by returning. No query waits for another:
\* while the scan runs, each unsettled query can take its next step whatever
\* the state of the others, slow or failed. No query poisons another: a step
\* of one query, a failure included, leaves the others as they were. And
\* the scan returns only when every query has settled, reporting for each
\* network whose query succeeded with a positive balance the entry that
\* query read.
C27_QueriesIndependent ==
  /\ [][\A i \in DOMAIN inv :
          LET r == inv[i]
              q == inv'[i]
          IN /\ r.pc # "scanning" /\ q.pc = "scanning" =>
                  /\ q.scanChains = config.supportedChains
                  /\ Len(q.scan) = Len(q.scanChains)
                  /\ \A k \in DOMAIN q.scan : q.scan[k].st = "decimals"
             /\ r.pc = "scanning" /\ q.pc # "scanning" => ScanReturns(i)
             /\ r.pc = "scanning" /\ q.pc = "scanning" =>
                  \A k \in DOMAIN r.scan :
                    q.scan[k] # r.scan[k] =>
                      \A j \in DOMAIN r.scan : j # k => q.scan[j] = r.scan[j]
             /\ ScanReturns(i) =>
                  \A k \in DOMAIN r.scan :
                    /\ r.scan[k].st = "done"
                    /\ ~r.scan[k].caught /\ r.scan[k].entry.balance > 0 =>
                         /\ r.scan[k].entry.chain = r.scanChains[k]
                         /\ \E j \in DOMAIN q.allBalances :
                              q.allBalances[j] = r.scan[k].entry]_vars
  /\ [](\A i \in DOMAIN inv :
          inv[i].pc = "scanning" =>
            \A k \in DOMAIN inv[i].scan :
              /\ inv[i].scan[k].st = "decimals" => ENABLED ScanDecimals(i, k)
              /\ inv[i].scan[k].st = "balance" =>
                   ENABLED ScanBalance(i, k) /\ ENABLED ScanFails(i, k))

\* C27 witness: the first network's query has not been answered at all, and
\* the second network's has already completed with a positive balance.
C27_WitnessSlowFirst ==
  \E i \in DOMAIN inv :
    /\ inv[i].pc = "scanning"
    /\ Len(inv[i].scan) = 2
    /\ inv[i].scan[1].st = "decimals"
    /\ inv[i].scan[2].st = "done"
    /\ ~inv[i].scan[2].caught
    /\ inv[i].scan[2].entry.balance > 0

\* C27 witness: the first network's query failed, the second network's
\* succeeded afterwards, and the scan reported the second network's entry.
C27_WitnessFailedFirst ==
  \E i \in DOMAIN inv :
    /\ inv[i].pc = "bridge.approve"
    /\ Len(inv[i].scanChains) = 2
    /\ inv[i].scanErrors = 1
    /\ Len(inv[i].allBalances) = 1
    /\ inv[i].allBalances[1].chain = inv[i].scanChains[2]

\* C28: a destination network that the destination-identifier table does not
\* hold is detected before any on-chain action: for a request whose network
\* has no entry in chainIds, no invocation submits an approve or a bridge
\* send, and no bridge send carries the identifier 0.
C28_MissingDestinationDetected ==
  \A i \in DOMAIN inv :
    \A h \in TxsOfKind(i, "approve") \cup TxsOfKind(i, "sendFrom") :
      /\ inv[i].paymentRequest.network \in DOMAIN chainIds
      /\ txs[h].op = "sendFrom" => txs[h].dstChainId # 0

\* C28: the state the claim excludes. The request names a network without
\* an identifier; the approve went through on the source and the bridge
\* send, addressed to destination 0, is submitted.
C28_WitnessSentToZero ==
  \E i \in DOMAIN inv :
    /\ inv[i].paymentRequest.network = "solana"
    /\ \E h \in TxsOfKind(i, "approve") : txs[h].status = "ok"
    /\ \E h \in TxsOfKind(i, "sendFrom") : txs[h].dstChainId = 0

\* C29: after updateConfig(partial), getConfig() returns the given value for
\* every field given in partial and, for every other field, the value it
\* had before the call; what getConfig returns is the configuration, field
\* by field. The invocation of executePayment that is called next starts on
\* the updated configuration and uses its values: the wallet of every
\* transaction, the list the scan goes over, the watcher's maximum wait and
\* the one named in the timeout message, and the length of every sleep.
C29_UpdateThenGet ==
  /\ [][/\ \A partial \in SessionUpdates :
             UpdateConfigIdle(partial) =>
               LET got == getConfig(config')
               IN /\ DOMAIN got = DOMAIN config
                  /\ \A k \in DOMAIN got :
                       got[k] = IF k \in DOMAIN partial THEN partial[k] ELSE config[k]
          /\ \A paymentRequest \in Requests :
               ExecutePayment(paymentRequest) =>
                 inv'[1].startConfig = getConfig(config)]_vars
  /\ [](/\ getConfig(config) = config
        /\ \A i \in DOMAIN inv :
             LET r == inv[i]
                 c == getConfig(config)
             IN /\ \A h \in 1..Len(txs) :
                     txs[h].inv = i => txs[h].from = c.walletAddress
                /\ Called(r, "scanAllChains") => r.scanChains = c.supportedChains
                /\ Called(r, "waitForBridgeCompletion") =>
                     r.maxWaitMs = c.maxBridgeWaitTime * MsPerSecond
                /\ r.verified = "false" => r.result.error.num = c.maxBridgeWaitTime
                /\ r.pc = "wait.sleep" => r.sleepMs = c.pollInterval)

\* C29 witness: the orchestrator was constructed with one wallet and a poll
\* interval of 1000 ms; updateConfig gave another wallet and 2000 ms, the
\* configured network and maximum wait are as constructed, and the invocation
\* called afterwards has sent its approve and bridge send from the new
\* wallet and sleeps 2000 ms.
C29_WitnessUpdatedValuesUsed ==
  /\ config = [ walletAddress |-> OtherWallet, supportedChains |-> <<"ethereum">>,
                maxBridgeWaitTime |-> 1, pollInterval |-> 2000 ]
  /\ \E i \in DOMAIN inv :
       /\ inv[i].pc = "wait.sleep"
       /\ inv[i].sleepMs = 2000
       /\ \E h \in TxsOfKind(i, "sendFrom") : txs[h].from = OtherWallet

\* C30: when no poll finds the required amount and the polls take no time
\* (all the time that passed since the watcher started was spent in its
\* sleeps), the number of polls issued before waitForBridgeCompletion
\* returns false is within 1 of maxBridgeWaitTime * 1000 / pollInterval: it
\* is the least n with n * pollInterval >= maxBridgeWaitTime * 1000. After
\* every unsuccessful poll, answered or failed, the first as the last, the
\* watcher sleeps the poll interval and nothing else.
C30_PollCount ==
  /\ [][\A i \in DOMAIN inv :
          LET r == inv[i]
              q == inv'[i]
          IN /\ r.pc = "wait.balance" /\ q.pc = "wait.sleep" =>
                  q.sleepMs = config.pollInterval
             /\ r.pc = "wait.sleep" /\ q # r =>
                  /\ now' - now = config.pollInterval
                  /\ q.pc \in {"wait.decimals", "done"}]_vars
  /\ [](\A i \in DOMAIN inv :
          LET r == inv[i]
              interval == config.pollInterval
              maxWaitMs == config.maxBridgeWaitTime * MsPerSecond
          IN /\ r.verified = "false"
             /\ now - r.startTime = r.attempts * interval
             => /\ interval * (r.attempts - 1) < maxWaitMs
                /\ maxWaitMs <= interval * r.attempts
                /\ r.attempts * interval - maxWaitMs < interval
                /\ r.pollErrors <= r.attempts)

\* C30 witness: a maximum wait of 2 s and a poll interval of 1000 ms; two
\* polls were issued, neither took any time nor found the amount, and the
\* watcher returned false 2000 ms after it started.
C30_WitnessTwoPolls ==
  \E i \in DOMAIN inv :
    /\ config.maxBridgeWaitTime = 2
    /\ config.pollInterval = 1000
    /\ inv[i].verified = "false"
    /\ inv[i].attempts = 2
    /\ now - inv[i].startTime = 2000

\* C30 witness: the maximum wait is half a poll interval (1 s against
\* 2000 ms); one poll was issued, and the watcher returned false after one
\* sleep.
C30_WitnessShortWait ==
  \E i \in DOMAIN inv :
    /\ config.maxBridgeWaitTime = 1
    /\ config.pollInterval = 2000
    /\ inv[i].verified = "false"
    /\ inv[i].attempts = 1
    /\ now - inv[i].startTime = 2000

\* C31: when every gateway call returns or fails and the clock advances, a
\* started watcher eventually returns true or false, and every invocation
\* of executePayment eventually is at its end with an outcome returned. No
\* invocation ends in a thrown error, and one that ended after its watcher
\* had started ended after the watcher returned true or false.
C31_EveryInvocationReturns ==
  /\ \A i \in Invocations :
       (inv[i].pc \in WatcherPcs) ~> (inv[i].verified \in {"true", "false"})
  /\ \A i \in Invocations :
       <>(inv[i].pc = "done" /\ inv[i].result # NoResult)
  /\ [](\A i \in DOMAIN inv :
          /\ inv[i].pc # "thrown"
          /\ inv[i].pc = "done" =>
               /\ inv[i].result # NoResult
               /\ Called(inv[i], "waitForBridgeCompletion") =>
                    inv[i].verified \in {"true", "false"})

\* C31 witness: the watcher polled at least twice, one poll failed, no poll
\* read enough, the watcher returned false and executePayment returned its
\* timeout outcome.
C31_WitnessWatcherReturned ==
  \E i \in DOMAIN inv :
    /\ inv[i].pc = "done"
    /\ inv[i].attempts >= 2
    /\ inv[i].pollErrors >= 1
    /\ inv[i].verified = "false"
    /\ inv[i].result.error.defined

\* The number of calls a loop over i < maxRetries can make.
AtMost(maxRetries) == IF maxRetries > 0 THEN maxRetries ELSE 0

\* C32: retryWithBackoff calls fn at most maxRetries times in all. When a
\* call succeeds, retryWithBackoff returns that call's value in the same
\* step; every call before it failed, and fn is not called again. When all
\* maxRetries calls have failed, it throws the error of the last call.
C32_RetryAtMostMaxRetries ==
  /\ [][/\ retry.pc = "fn" /\ retry'.pc = "returned" =>
             /\ retry'.calls = retry.calls
             /\ retry'.returnedBy = retry.calls
             /\ retry'.returned \in FnValues
             /\ retry'.slept = retry.slept
        /\ retry.pc \in {"returned", "thrown"} => retry' = retry]_vars
  /\ [](/\ retry.calls <= AtMost(retry.maxRetries)
        /\ retry.pc = "returned" =>
             /\ retry.returnedBy = retry.calls
             /\ Len(retry.slept) = retry.calls - 1
             /\ retry.thrown = Undefined
        /\ retry.pc = "thrown" =>
             /\ retry.calls = AtMost(retry.maxRetries)
             /\ retry.returned = ""
             /\ retry.maxRetries > 0 =>
                  /\ retry.thrown.defined
                  /\ retry.thrown.call = retry.maxRetries
                  /\ retry.thrown = retry.lastError)

\* C32 witness: maxRetries = 3; the first two calls failed and the third
\* returned a value.
C32_WitnessThirdCallReturns ==
  /\ retry.maxRetries = 3
  /\ retry.pc = "returned"
  /\ retry.returnedBy = 3
  /\ retry.lastError.call = 2

\* C32 witness: maxRetries = 3; all three calls failed, with different
\* errors, and the third call's error was thrown.
C32_WitnessLastErrorThrown ==
  /\ retry.maxRetries = 3
  /\ retry.pc = "thrown"
  /\ retry.calls = 3
  /\ retry.thrown = [defined |-> TRUE, call |-> 3, kind |-> "Request timeout"]

\* C39: after the i-th failed call (i counted from 0) retryWithBackoff
\* sleeps initialDelay * 2^i, so each delay is twice the one before. Every
\* failed call is followed by its sleep, the final one too: the error is
\* thrown only when a sleep ends, after as many sleeps as calls. With
\* maxRetries <= 0 fn is never called, nothing is slept, and what is thrown
\* is undefined.
C39_DelaysDouble ==
  /\ [][/\ retry.pc = "fn" /\ retry'.pc # "returned" /\ retry' # retry =>
             /\ retry'.pc = "sleep"
             /\ retry'.delay = retry.initialDelay * Pow2(retry.i)
        /\ retry.pc = "sleep" /\ retry' # retry =>
             /\ now' - now = retry.initialDelay * Pow2(retry.i)
             /\ retry'.i = retry.i + 1
             /\ retry'.pc \in {"fn", "thrown"}]_vars
  /\ [](/\ \A k \in DOMAIN retry.slept :
             /\ retry.slept[k] = retry.initialDelay * Pow2(k - 1)
             /\ k > 1 => retry.slept[k] = 2 * retry.slept[k - 1]
        /\ retry.pc = "thrown" /\ retry.maxRetries > 0 =>
             /\ Len(retry.slept) = retry.maxRetries
             /\ Len(retry.slept) = retry.calls
             /\ now = retry.initialDelay * (Pow2(retry.maxRetries) - 1)
        /\ retry.maxRetries <= 0 =>
             /\ retry.pc = "thrown"
             /\ retry.calls = 0
             /\ retry.slept = <<>>
             /\ now = 0
             /\ retry.thrown = Undefined
             /\ ~retry.thrown.defined)

\* C39 witness: three calls failed with an initial delay of 1000 ms; the
\* sleeps were 1000, 2000 and 4000 ms, the last of them after the final
\* call, and the error was thrown at 7000 ms.
C39_WitnessThreeSleeps ==
  /\ retry.pc = "thrown"
  /\ retry.calls = 3
  /\ retry.slept = <<1000, 2000, 4000>>
  /\ now = 7000

\* C39 witness: maxRetries = 0; fn was not called and undefined was thrown.
C39_WitnessNoCall ==
  /\ retry.maxRetries = 0
  /\ retry.pc = "thrown"
  /\ retry.calls = 0
  /\ retry.thrown = Undefined

\* C33: checkBalance fails exactly when the gateway's balance read fails,
\* and with the error the gateway threw. Its metadata read never makes it
\* fail: the step answers the token's decimals or 18 and the balance read
\* follows. When the balance read answers, checkBalance returns the balance
\* read, for the network asked, with the decimals the metadata step gave;
\* so the required amount is parsed with 18 decimals when the metadata read
\* of the target network failed. This holds for the three callers: the
\* target check, each query of the scan, and each poll of the watcher.
C33_CheckBalanceFailsOnBalanceRead ==
  /\ [][\A i \in DOMAIN inv :
          LET r == inv[i]
              q == inv'[i]
              network == r.paymentRequest.network
              fallbacks(chain) == {TokenDecimals(chain), DefaultDecimals}
          IN /\ r.pc = "checkTarget.decimals" /\ q # r =>
                  /\ q.pc = "checkTarget.balance"
                  /\ q.caught = <<>>
                  /\ q.decimals \in fallbacks(network)
             /\ r.pc = "checkTarget.balance" /\ q # r =>
                  \/ /\ q.targetBalance = NoBalance
                     /\ q.caught # <<>>
                     /\ q.caught[1] \in Thrown("getERC20Balance")
                     /\ q.pc = "done"
                  \/ /\ q.targetBalance.chain = network
                     /\ q.targetBalance.balance \in Balances
                     /\ q.targetBalance.decimals = r.decimals
                     /\ q.targetBalance.tokenAddress = r.paymentRequest.asset
                     /\ q.caught # <<>> =>
                          q.caught[1].message = InvalidDecimalNumber
             /\ r.pc = "scanning" /\ q.pc = "scanning" =>
                  \A k \in DOMAIN r.scan :
                    /\ r.scan[k].st = "decimals" /\ q.scan[k] # r.scan[k] =>
                         /\ q.scan[k].st = "balance"
                         /\ q.scan[k].entry.decimals \in fallbacks(r.scanChains[k])
                    /\ r.scan[k].st = "balance" /\ q.scan[k] # r.scan[k] =>
                         /\ q.scan[k].st = "done"
                         /\ q.scan[k].caught <=> q.scanErrors = r.scanErrors + 1
                         /\ ~q.scan[k].caught =>
                              /\ q.scan[k].entry.chain = r.scanChains[k]
                              /\ q.scan[k].entry.balance \in Balances
                              /\ q.scan[k].entry.decimals = r.scan[k].entry.decimals
             /\ r.pc = "wait.decimals" /\ q # r =>
                  /\ q.pc = "wait.balance"
                  /\ q.pollErrors = r.pollErrors
                  /\ q.decimals \in fallbacks(network)
             /\ r.pc = "wait.balance" /\ q # r =>
                  \/ /\ q.pollErrors = r.pollErrors + 1
                     /\ q.balance = NoBalance
                  \/ /\ q.pollErrors = r.pollErrors
                     /\ q.balance.chain = network
                     /\ q.balance.balance \in Balances
                     /\ q.balance.decimals = r.decimals]_vars
  /\ [](\A i \in DOMAIN inv :
          LET r == inv[i]
          IN r.requiredAmount # -1 =>
               /\ IsAmountAt(r.requiredAmount, r.paymentRequest.maxAmountRequired,
                             r.targetBalance.decimals)
               /\ r.targetBalance.decimals # TokenDecimals(r.paymentRequest.network) =>
                    /\ r.targetBalance.decimals = DefaultDecimals
                    /\ r.requiredAmount =
                         r.paymentRequest.maxAmountRequired.mant
                           * Pow10(DefaultDecimals - r.paymentRequest.maxAmountRequired.exp))

\* C33 witness: the metadata read of the target network, where the token has
\* 17 decimals, failed; checkBalance returned the balance read, 2, with
\* decimals 18, and the request for 2 units at 17 decimals was parsed as 20.
C33_WitnessMetadataFailed ==
  \E i \in DOMAIN inv :
    /\ inv[i].paymentRequest.network = "base"
    /\ inv[i].paymentRequest.maxAmountRequired = [valid |-> TRUE, mant |-> 2, exp |-> 17]
    /\ inv[i].targetBalance.decimals = 18
    /\ inv[i].targetBalance.balance = 2
    /\ inv[i].requiredAmount = 20
    /\ inv[i].caught = <<>>

\* C34: a payment transfer is submitted only in the step in which a balance
\* query of the same invocation on the destination network, the initial
\* check or a poll of the watcher, answered a balance >= the required
\* amount; so every invocation with a transfer holds such an answer. An
\* invocation that ended in Failed (no viable source, or an error caught at
\* the top level), in BridgeFailed or in Timeout has submitted no transfer.
C34_TransferOnlyAfterSufficientRead ==
  /\ [][\A i \in DOMAIN inv :
          LET r == inv[i]
              q == inv'[i]
          IN Cardinality(TxsOfKind(i, "transfer")') > Cardinality(TxsOfKind(i, "transfer")) =>
               /\ TxsOfKind(i, "transfer") = {}
               /\ \/ /\ r.pc = "checkTarget.balance"
                     /\ q.targetBalance.chain = r.paymentRequest.network
                     /\ q.targetBalance.balance >= q.requiredAmount
                  \/ /\ r.pc = "wait.balance"
                     /\ q.balance.chain = r.paymentRequest.network
                     /\ q.balance.balance >= q.requiredAmount
                     /\ q.requiredAmount = r.requiredAmount]_vars
  /\ [](\A i \in DOMAIN inv :
          LET r == inv[i]
              failed == \/ r.caught # <<>>
                        \/ r.result.error =
                             InsufficientMessage(r.paymentRequest.maxAmountRequired)
              bridgeFailed == r.bridgeResult.error.defined
              timeout == r.verified = "false"
          IN /\ TxsOfKind(i, "transfer") # {} =>
                  /\ r.requiredAmount # -1
                  /\ \/ r.targetBalance.balance >= r.requiredAmount
                     \/ /\ r.verified = "true"
                        /\ r.balance.balance >= r.requiredAmount
             /\ r.pc = "done" /\ (failed \/ bridgeFailed \/ timeout) =>
                  /\ ~r.result.success
                  /\ TxsOfKind(i, "transfer") = {}
                  /\ ~Called(r, "sendPayment"))

\* C34 witness: the watcher timed out after the bridge send had been
\* accepted; the invocation has ended with two transactions, the approve and
\* the bridge send, and no transfer.
C34_WitnessTimeoutWithoutTransfer ==
  \E i \in DOMAIN inv :
    /\ inv[i].pc = "done"
    /\ inv[i].verified = "false"
    /\ inv[i].bridgeResult.success
    /\ TxsOfKind(i, "sendFrom") # {}
    /\ TxsOfKind(i, "transfer") = {}

\* C34 witness: the target check read too little, a poll of the watcher read
\* enough, and the transfer was submitted after it.
C34_WitnessTransferAfterPoll ==
  \E i \in DOMAIN inv :
    /\ inv[i].targetBalance.balance < inv[i].requiredAmount
    /\ inv[i].balance.balance >= inv[i].requiredAmount
    /\ inv[i].attempts >= 2
    /\ TxsOfKind(i, "transfer") # {}

\* C35: every outcome executePayment returns is either success = true with a
\* transaction hash and no error, or success = false with an error and no
\* transaction hash. Success is returned only when the gateway accepted the
\* invocation's payment transfer, and the hash returned is that transfer's;
\* it is never the hash of the approve or of the bridge send. An invocation
\* whose bridge send was accepted and that ended in a timeout or in a failed
\* payment returns no hash at all.
C35_OutcomeShape ==
  \A i \in DOMAIN inv :
    LET r == inv[i]
        accepted == { h \in TxsOfKind(i, "transfer") : txs[h].status = "ok" }
    IN /\ r.pc = "done" =>
            \/ /\ r.result.success
               /\ ~r.result.error.defined
               /\ r.result.transactionHash \in accepted
               /\ r.result.transactionHash \notin
                    TxsOfKind(i, "approve") \cup TxsOfKind(i, "sendFrom")
            \/ /\ ~r.result.success
               /\ r.result.error.defined
               /\ r.result.transactionHash = 0
               /\ accepted = {}
       /\ r.pc # "done" => r.result = NoResult
       /\ r.pc = "done" /\ r.bridgeResult.success /\ accepted = {} =>
            /\ ~r.result.success
            /\ r.result.transactionHash # r.bridgeResult.transactionHash
            /\ r.result.transactionHash = 0

\* C35 witness: the bridge send was accepted, the watcher returned true, the
\* payment transfer was rejected; the outcome is a failure with an error and
\* without a hash, although the bridge transaction has one.
C35_WitnessFailedRetryPayment ==
  \E i \in DOMAIN inv :
    /\ inv[i].pc = "done"
    /\ inv[i].bridgeResult.success
    /\ inv[i].bridgeResult.transactionHash # 0
    /\ inv[i].verified = "true"
    /\ \E h \in TxsOfKind(i, "transfer") : txs[h].status = "failed"
    /\ ~inv[i].result.success
    /\ inv[i].result.transactionHash = 0

\* C35 witness: success after bridging; the hash returned is the transfer's,
\* the third transaction, and not the bridge send's.
C35_WitnessTransferHash ==
  \E i \in DOMAIN inv :
    /\ inv[i].pc = "done"
    /\ inv[i].result.success
    /\ inv[i].bridgeResult.transactionHash = 2
    /\ inv[i].result.transactionHash = 3

\* ------------------------------ the gateway as this repository implements it

\* The message of the Error that BlockchainOperations.readContract throws.
ReadNotSupported ==
  "Read operations are not supported directly by CDP SDK. Please use viem publicClient or ethers.js for read-only calls."

\* A readContract that answers the call.
readContractAnswers(functionName) ==
  { [throws |-> FALSE, error |-> [isError |-> FALSE, message |-> ""]] }

\* BlockchainOperations.readContract: it encodes the call, warns, and throws;
\* the set of its outcomes has this one member whatever function is read.
readContract(functionName) ==
  { [throws |-> TRUE, error |-> [isError |-> TRUE, message |-> ReadNotSupported]] }

\* BlockchainOperations.getTokenInfo: Promise.all over four readContract
\* calls; it rejects when the read of the decimals does.
getTokenInfo(tokenAddress, network) == readContract("decimals")

\* BlockchainOperations.getERC20Balance: one readContract of balanceOf.
getERC20Balance(tokenAddress, walletAddress, network) == readContract("balanceOf")

\* checkBalance(asset, network) of the target check: getTokenDecimals calls
\* the gateway's getTokenInfo and falls back to 18 when it throws.
GatewayTokenInfo(i) ==
  /\ inv[i].pc = "checkTarget.decimals"
  /\ \E o \in getTokenInfo(inv[i].paymentRequest.asset, inv[i].paymentRequest.network) :
       inv' = [inv EXCEPT
                 ![i].decimals = getTokenDecimals(inv[i].paymentRequest.network, ~o.throws),
                 ![i].pc = "checkTarget.balance"]
  /\ UNCHANGED <<config, now, txs>>

\* checkBalance(asset, network) of the target check: the gateway's
\* getERC20Balance is called; what it throws reaches executePayment's catch,
\* what it answers goes on as in CheckTargetBalance.
GatewayBalance(i) ==
  /\ inv[i].pc = "checkTarget.balance"
  /\ \E o \in getERC20Balance(inv[i].paymentRequest.asset, config.walletAddress,
                              inv[i].paymentRequest.network) :
       IF o.throws
       THEN /\ inv' = [inv EXCEPT ![i] = executePaymentCatch(@, o.error)]
            /\ UNCHANGED <<config, now, txs>>
       ELSE CheckTargetBalance(i)

DoGatewayTokenInfo == (\E i \in DOMAIN inv : GatewayTokenInfo(i))
  /\ UNCHANGED retry
DoGatewayBalance == (\E i \in DOMAIN inv : GatewayBalance(i))
  /\ UNCHANGED retry

GatewayNext == DoGatewayTokenInfo \/ DoGatewayBalance

\* Every orchestrator and request of Init, run against the gateway of this
\* repository.
GatewaySpec == Init /\ [][GatewayNext]_vars

\* C36: with the gateway of this repository, whose readContract always
\* throws, no invocation of executePayment ever submits a transaction (no
\* approve, no bridge send, no transfer), none gets past the initial target
\* check (no balance is read, no required amount parsed, no scan, bridge or
\* payment called), none is stuck there, and every outcome is the failure
\* carrying the message of the read's error.
C36_ImplementedGatewayNeverPays ==
  \A i \in DOMAIN inv :
    LET r == inv[i]
    IN /\ txs = <<>>
       /\ r.pc \in {"checkTarget.decimals", "checkTarget.balance", "done"}
       /\ r.called = <<"checkBalance">>
       /\ r.targetBalance = NoBalance
       /\ r.requiredAmount = -1
       /\ r.pc = "checkTarget.balance" => r.decimals = DefaultDecimals
       /\ r.pc # "done" => ENABLED GatewayNext
       /\ r.pc = "done" =>
            /\ ~r.result.success
            /\ r.result.transactionHash = 0
            /\ r.result.error = PlainMessage(ReadNotSupported)
            /\ r.caught = <<[isError |-> TRUE, message |-> ReadNotSupported]>>

\* C36 witness: an invocation whose request names a valid amount on a
\* configured network has returned the failure of the balance read, with no
\* transaction submitted.
C36_WitnessReadFailureOutcome ==
  \E i \in DOMAIN inv :
    /\ inv[i].pc = "done"
    /\ inv[i].paymentRequest.maxAmountRequired.valid
    /\ Len(config.supportedChains) > 0
    /\ ~inv[i].result.success
    /\ inv[i].result.error = PlainMessage(ReadNotSupported)
    /\ txs = <<>>

\* C37: the entries scanAllChains returns stand in the order of the
\* configured supported networks, in whatever order the concurrent queries
\* completed: while the scan runs, the queries settle in any order, each
\* once; and in the result an entry stands before another exactly when its
\* network stands before the other's in the configured list. The selected
\* source is therefore fixed by what the queries read: it is the viable
\* entry with the highest balance, and among equals the one whose network
\* comes first in the configured list, whichever query completed first.
C37_ScanOrderIsConfiguredOrder ==
  \A i \in DOMAIN inv :
    LET r == inv[i]
    IN /\ r.pc = "scanning" =>
            /\ r.scanChains = config.supportedChains
            /\ { r.settled[j] : j \in DOMAIN r.settled }
                 = { k \in DOMAIN r.scan : r.scan[k].st = "done" }
            /\ \A j1, j2 \in DOMAIN r.settled : j1 # j2 => r.settled[j1] # r.settled[j2]
       /\ \A j1, j2 \in DOMAIN r.allBalances :
            j1 < j2 <=> ScanPosition(r, r.allBalances[j1].chain)
                          < ScanPosition(r, r.allBalances[j2].chain)
       /\ r.sourceChain # NoBalance =>
            /\ \E v \in DOMAIN r.viableChains : r.viableChains[v] = r.sourceChain
            /\ \A v \in DOMAIN r.viableChains :
                 \/ r.viableChains[v].balance < r.sourceChain.balance
                 \/ /\ r.viableChains[v].balance = r.sourceChain.balance
                    /\ ScanPosition(r, r.sourceChain.chain)
                         <= ScanPosition(r, r.viableChains[v].chain)

\* C37 witness: the second network's query completed before the first's;
\* the scan returned the first network's entry before the second's; both
\* hold the same viable balance, and the source is the first network's.
C37_WitnessSecondCompletedFirst ==
  \E i \in DOMAIN inv :
    LET r == inv[i]
    IN /\ r.pc = "bridge.approve"
       /\ r.settled = <<2, 1>>
       /\ Len(r.allBalances) = 2
       /\ r.allBalances[1].chain = config.supportedChains[1]
       /\ r.allBalances[2].chain = config.supportedChains[2]
       /\ r.allBalances[1].balance = r.allBalances[2].balance
       /\ Len(r.viableChains) = 2
       /\ r.sourceChain = r.allBalances[1]

\* ------------------------------------- construct, set the wait, then pay

\* The configurations handed to the constructor: the maximum wait and the
\* poll interval each absent, zero, or given; a given poll interval comes
\* with a given wait.
ConstructorArgs ==
  LET base == [walletAddress |-> Wallet, supportedChains |-> <<"ethereum">>]
      waits == {<<>>} \cup { <<w>> : w \in {0, 1} }
      polls == {<<>>} \cup { <<p>> : p \in {0, 1000} }
      with(rec, key, opt) == IF opt = <<>> THEN rec ELSE (key :> opt[1]) @@ rec
  IN { with(with(base, "maxBridgeWaitTime", w), "pollInterval", p) :
         <<w, p>> \in { wp \in waits \X polls : wp[2] = <<1000>> => wp[1] = <<1>> } }

\* An orchestrator as the constructor leaves it, with no executePayment
\* called yet.
ZeroWaitInit ==
  \E partial \in ConstructorArgs :
    /\ config = Constructor(partial)
    /\ now = 0
    /\ txs = <<>>
    /\ inv = <<>>
    /\ retry = NoRetry

\* The updates of a caller that sets the maximum wait before paying.
MaxWaitUpdates == [maxBridgeWaitTime : 0..MaxWaitSeconds]

DoUpdateMaxWait == (\E partial \in MaxWaitUpdates : UpdateConfigIdle(partial))
  /\ UNCHANGED retry

ZeroWaitNext == DoUpdateMaxWait \/ DoExecutePayment \/ Next

ZeroWaitSpec == ZeroWaitInit /\ [][ZeroWaitNext]_vars

\* C38: the constructor replaces an absent or zero maxBridgeWaitTime by 180
\* and an absent or zero pollInterval by 10000, so a constructed
\* configuration holds no zero; updateConfig stores the maximum wait it is
\* given, zero included, and leaves the other fields alone; and a watcher
\* that started with a maximum wait of 0 has returned false at once: no
\* attempt was counted, no balance was read, no time has passed since it
\* started, and the invocation, whose bridge send was accepted, has ended
\* with the timeout outcome and without a transfer.
C38_ZeroWaitSkipsVerification ==
  /\ \A partial \in ConstructorArgs :
       config = Constructor(partial) =>
         /\ config.maxBridgeWaitTime =
              IF "maxBridgeWaitTime" \in DOMAIN partial /\ partial.maxBridgeWaitTime # 0
              THEN partial.maxBridgeWaitTime ELSE 180
         /\ config.pollInterval =
              IF "pollInterval" \in DOMAIN partial /\ partial.pollInterval # 0
              THEN partial.pollInterval ELSE 10000
  /\ config.maxBridgeWaitTime # 0 /\ config.pollInterval # 0
  /\ [][\A partial \in MaxWaitUpdates :
          UpdateConfigIdle(partial) =>
            /\ config'.maxBridgeWaitTime = partial.maxBridgeWaitTime
            /\ config'.pollInterval = config.pollInterval
            /\ config'.walletAddress = config.walletAddress
            /\ config'.supportedChains = config.supportedChains]_vars
  /\ [](\A i \in DOMAIN inv :
          LET r == inv[i]
          IN r.maxWaitMs = 0 =>
               /\ r.pc = "done"
               /\ r.attempts = 0
               /\ r.pollErrors = 0
               /\ r.balance = NoBalance
               /\ r.verified = "false"
               /\ r.startTime = now
               /\ r.bridgeResult.success
               /\ txs[r.bridgeResult.transactionHash].op = "sendFrom"
               /\ txs[r.bridgeResult.transactionHash].status = "ok"
               /\ ~r.result.success
               /\ r.result.error = TimeoutMessage(0)
               /\ ~Called(r, "sendPayment")
               /\ TxsOfKind(i, "transfer") = {})

\* C38 witness: the maximum wait was set to 0 by updateConfig, the bridge
\* send was accepted, and the invocation has ended with the timeout outcome
\* after no attempt of the watcher.
C38_WitnessTimeoutWithoutAttempt ==
  \E i \in DOMAIN inv :
    /\ config.maxBridgeWaitTime = 0
    /\ inv[i].pc = "done"
    /\ inv[i].maxWaitMs = 0
    /\ inv[i].bridgeResult.success
    /\ inv[i].attempts = 0
    /\ inv[i].result = Failed(TimeoutMessage(0))
====
